---- MODULE Spec2Model ----
(***************************************************************************)
(* cwtch: runtime type-directed validation.  The model covers              *)
(*   - the validator entry point validate_value(value, T) and its          *)
(*     dispatch over primitives, unions, containers, Annotated types and   *)
(*     model classes (cwtch.core, exercised by src/tests);                 *)
(*   - the constraint hooks of src/cwtch/metadata.py;                      *)
(*   - the __init__ generated by _create_init in src/cwtch/cwtch.py.       *)
(* Python values are records tagged by k; a call is one action.            *)
(***************************************************************************)
EXTENDS Integers, Sequences, FiniteSets, TLC

VARIABLES call, out, next_id, generic, ctx, threads, registry

vars == <<call, out, next_id, generic, ctx, threads, registry>>

----------------------------------------------------------------------------
(* Bounds of the explored input space *)

MaxLen == 3      \* longest source sequence handed to a container type
MaxKw == 2       \* most keyword arguments in one constructor input
MaxObjs == 4     \* most model instances allocated in one behaviour
MaxClasses == 6  \* most classes declared or instantiated in one behaviour
MaxProps == 2    \* most property objects created in one behaviour

----------------------------------------------------------------------------
(* Python values *)

MISSING == [k |-> "_MISSING"]
IntV(n) == [k |-> "int", n |-> n]
\* a float is kept in tenths: 1.1 is FloatV(11)
FloatV(t) == [k |-> "float", n |-> t]
StrV(s) == [k |-> "str", s |-> s]
BoolV(b) == [k |-> "bool", b |-> b]
NoneV == [k |-> "NoneType"]
ListV(xs) == [k |-> "list", xs |-> xs]
TupleV(xs) == [k |-> "tuple", xs |-> xs]
SetV(xs) == [k |-> "set", xs |-> xs]
\* a dict keeps its insertion order: a sequence of [key, val]
DictV(kv) == [k |-> "dict", kv |-> kv]
KV(key, val) == [key |-> key, val |-> val]

\* path segments of a ValidationError
PIdx(i) == [idx |-> i]
PKey(s) == [key |-> s]
PHook(cls, h) == [cls |-> cls, hook |-> h]

----------------------------------------------------------------------------
(* Results: a returned value or a raised exception, with the call's trace *)

Ok(v, st) == [exc |-> "none", val |-> v, st |-> st]
Raise(e, err, st) == [exc |-> e, err |-> err, st |-> st]
Leaf(e, msg) == [exc |-> e, msg |-> msg]
LeafArg(e, msg, arg) == [exc |-> e, msg |-> msg, bound |-> arg]
LeafName(e, msg, name) == [exc |-> e, msg |-> msg, name |-> name]
VError(T, errors, path) ==
    [exc |-> "ValidationError", tp |-> T, errors |-> errors, path |-> path]
\* the trace of a call: each event with the depth of the validate_value
\* call that produced it (the caller's own frame is depth 0)
Log(st, e) == [st EXCEPT !.log = Append(@, [d |-> st.d, e |-> e])]

----------------------------------------------------------------------------
(* Native conversions on the modelled value universe *)

Dec == <<"1", "2", "3", "4", "5", "6", "7", "8", "9">>
StrOfInt(n) == IF n = 0 THEN "0" ELSE IF n = -1 THEN "-1" ELSE IF n = -2 THEN "-2" ELSE Dec[n]
IsIntStr(s) == s \in {"0", "-1", "-2"} \/ \E n \in 1..9 : Dec[n] = s
IntOfStr(s) ==
    IF s = "0" THEN 0 ELSE IF s = "-1" THEN -1 ELSE IF s = "-2" THEN -2
    ELSE CHOOSE n \in 1..9 : Dec[n] = s

\* decimal strings with a fraction, and their value in tenths
FloatStrs == {<<"0.0", 0>>, <<"1.0", 10>>, <<"1.1", 11>>, <<"2.0", 20>>}
IsFloatStr(s) == IsIntStr(s) \/ \E p \in FloatStrs : p[1] = s
FloatOfStr(s) ==
    IF IsIntStr(s) THEN 10 * IntOfStr(s)
    ELSE (CHOOSE p \in FloatStrs : p[1] = s)[2]
StrOfFloat(t) == (CHOOSE p \in FloatStrs : p[2] = t)[1]

\* value < bound as Python compares numbers (both sides in tenths)
Num(v) ==
    CASE v.k = "int" -> 10 * v.n
      [] v.k = "float" -> v.n
      [] v.k = "bool" -> IF v.b THEN 10 ELSE 0
IsNum(v) == v.k \in {"int", "float", "bool"}

\* the cased strings of the universe: <<string, lower, upper>>
Cased ==
    {<<"a", "a", "A">>, <<"A", "a", "A">>,
     <<"true", "true", "TRUE">>, <<"True", "true", "TRUE">>, <<"TRUE", "true", "TRUE">>,
     <<"false", "false", "FALSE">>, <<"False", "false", "FALSE">>, <<"FALSE", "false", "FALSE">>,
     <<"y", "y", "Y">>, <<"Y", "y", "Y">>, <<"n", "n", "N">>, <<"N", "n", "N">>,
     <<"t", "t", "T">>, <<"T", "t", "T">>, <<"f", "f", "F">>, <<"F", "f", "F">>,
     <<"yes", "yes", "YES">>, <<"Yes", "yes", "YES">>, <<"YES", "yes", "YES">>,
     <<"no", "no", "NO">>, <<"No", "no", "NO">>, <<"NO", "no", "NO">>,
     <<"ok", "ok", "OK">>, <<"fail", "fail", "FAIL">>}
Lower(s) == IF \E c \in Cased : c[1] = s THEN (CHOOSE c \in Cased : c[1] = s)[2] ELSE s
Upper(s) == IF \E c \in Cased : c[1] = s THEN (CHOOSE c \in Cased : c[1] = s)[3] ELSE s

\* JSON documents of the universe
IsJson(s) == IsFloatStr(s) \/ s = "[1]" \/ s = "\"1\""
JsonOf(s) ==
    IF IsIntStr(s) THEN IntV(IntOfStr(s))
    ELSE IF s = "[1]" THEN ListV(<<IntV(1)>>)
    ELSE IF s = "\"1\"" THEN StrV("1")
    ELSE FloatV(FloatOfStr(s))

\* an outcome of a hook or a conversion: a value or a native exception
Ret(v) == [exc |-> "none", val |-> v]
Exc(e, msg) == [exc |-> e, err |-> Leaf(e, msg)]
ExcArg(e, msg, arg) == [exc |-> e, err |-> LeafArg(e, msg, arg)]
ExcName(e, msg, name) == [exc |-> e, err |-> LeafName(e, msg, name)]

----------------------------------------------------------------------------
(* Primitive coercers *)

\* mutant: an int is only ever parsed from text, never passed through
validate_intFromText(v) ==
    CASE v.k = "str" ->
            IF IsIntStr(v.s) THEN Ret(IntV(IntOfStr(v.s)))
            ELSE Exc("ValueError", "invalid literal for int() with base 10")
      [] OTHER -> Exc("TypeError", "int() argument must be a string, a bytes-like object or a real number")

validate_int(v) ==
    CASE v.k = "int" -> Ret(v)
      [] v.k = "bool" -> Ret(IntV(IF v.b THEN 1 ELSE 0))
      [] v.k = "float" -> Ret(IntV(v.n \div 10))
      [] v.k = "str" ->
            IF IsIntStr(v.s) THEN Ret(IntV(IntOfStr(v.s)))
            ELSE Exc("ValueError", "invalid literal for int() with base 10")
      [] OTHER -> Exc("TypeError", "int() argument must be a string, a bytes-like object or a real number")

validate_float(v) ==
    CASE v.k = "float" -> Ret(v)
      [] v.k = "int" -> Ret(FloatV(10 * v.n))
      [] v.k = "bool" -> Ret(FloatV(IF v.b THEN 10 ELSE 0))
      [] v.k = "str" ->
            IF IsFloatStr(v.s) THEN Ret(FloatV(FloatOfStr(v.s)))
            ELSE Exc("ValueError", "could not convert string to float")
      [] OTHER -> Exc("TypeError", "float() argument must be a string or a real number")

\* mutant: any value is accepted and turned into str(value)
validate_strAny(v) ==
    CASE v.k = "str" -> Ret(v)
      [] v.k = "int" -> Ret(StrV(StrOfInt(v.n)))
      [] v.k = "float" -> Ret(StrV(StrOfFloat(v.n)))
      [] v.k = "bool" -> Ret(StrV(IF v.b THEN "True" ELSE "False"))
      [] v.k = "NoneType" -> Ret(StrV("None"))
      [] OTHER -> Ret(StrV("<repr>"))

\* only a str is a str
validate_str(v) ==
    IF v.k = "str" THEN Ret(v) ELSE Exc("ValueError", "value is not a valid <class 'str'>")

\* mutant: an integer is taken by its truth value
validate_boolTruthy(v) ==
    CASE v.k = "bool" -> Ret(v)
      [] v.k = "int" -> Ret(BoolV(v.n # 0))
      [] v.k = "str" /\ Lower(v.s) \in {"1", "true", "t", "y", "yes"} -> Ret(BoolV(TRUE))
      [] v.k = "str" /\ Lower(v.s) \in {"0", "false", "f", "n", "no"} -> Ret(BoolV(FALSE))
      [] OTHER -> Exc("ValueError", "could not convert value to bool")

validate_bool(v) ==
    CASE v.k = "bool" -> Ret(v)
      [] v.k = "int" /\ v.n \in {0, 1} -> Ret(BoolV(v.n = 1))
      [] v.k = "str" /\ Lower(v.s) \in {"1", "true", "t", "y", "yes"} -> Ret(BoolV(TRUE))
      [] v.k = "str" /\ Lower(v.s) \in {"0", "false", "f", "n", "no"} -> Ret(BoolV(FALSE))
      [] OTHER -> Exc("ValueError", "could not convert value to bool")

----------------------------------------------------------------------------
(* Constraint objects (src/cwtch/metadata.py) *)

Ge(n) == [c |-> "Ge", value |-> n]
Strict(tps) == [c |-> "Strict", type |-> tps]
JsonLoads == [c |-> "JsonLoads"]
ToLower(mode) == [c |-> "ToLower", mode |-> mode]
ToUpper(mode) == [c |-> "ToUpper", mode |-> mode]

\* mutant: the bound itself is rejected
GeAfterExclusive(c, v) ==
    IF ~IsNum(v) THEN Exc("TypeError", "'<' not supported between instances")
    ELSE IF Num(v) <= 10 * c.value THEN ExcArg("ValueError", "value should be >=", c.value)
    ELSE Ret(v)

GeAfter(c, v) ==
    IF ~IsNum(v) THEN Exc("TypeError", "'<' not supported between instances")
    ELSE IF Num(v) < 10 * c.value THEN ExcArg("ValueError", "value should be >=", c.value)
    ELSE Ret(v)

\* mutant: a value of another type is let through
StrictBeforeLenient(c, v) == Ret(v)

StrictBefore(c, v) ==
    IF \E i \in 1..Len(c.type) : v.k = c.type[i] THEN Ret(v)
    ELSE Exc("ValueError", "invalid value for")

JsonLoadsBefore(c, v) ==
    IF v.k = "str" /\ IsJson(v.s) THEN Ret(JsonOf(v.s)) ELSE Ret(v)

ToLowerBefore(c, v) ==
    IF c.mode = "before"
    THEN IF v.k = "str" THEN Ret(StrV(Lower(v.s)))
         ELSE Exc("AttributeError", "object has no attribute 'lower'")
    ELSE Ret(v)

ToLowerAfter(c, v) ==
    IF c.mode = "after"
    THEN IF v.k = "str" THEN Ret(StrV(Lower(v.s)))
         ELSE Exc("AttributeError", "object has no attribute 'lower'")
    ELSE Ret(v)

ToUpperBefore(c, v) ==
    IF c.mode = "before"
    THEN IF v.k = "str" THEN Ret(StrV(Upper(v.s)))
         ELSE Exc("AttributeError", "object has no attribute 'upper'")
    ELSE Ret(v)

ToUpperAfter(c, v) ==
    IF c.mode = "after"
    THEN IF v.k = "str" THEN Ret(StrV(Upper(v.s)))
         ELSE Exc("AttributeError", "object has no attribute 'upper'")
    ELSE Ret(v)

\* UrlConstraints.after: the scheme, then the port, each only when the
\* constraint lists any
UrlConstraintsAfter(c, v) ==
    IF c.schemes # NoneV /\ \A i \in 1..Len(c.schemes.xs) : c.schemes.xs[i] # StrV(v.scheme)
    THEN Exc("ValueError", "URL scheme should be one of")
    ELSE IF /\ c.ports # NoneV
            /\ v.port # ""
            /\ \A i \in 1..Len(c.ports.xs) : c.ports.xs[i] # StrV(v.port)
    THEN Exc("ValueError", "port number should be one of")
    ELSE Ret(v)

\* TypeMetadata gives every constraint both hooks; an undefined one is nop
Before(c, v) ==
    CASE c.c = "Strict" -> StrictBefore(c, v)
      [] c.c = "JsonLoads" -> JsonLoadsBefore(c, v)
      [] c.c = "ToLower" -> ToLowerBefore(c, v)
      [] c.c = "ToUpper" -> ToUpperBefore(c, v)
      [] OTHER -> Ret(v)

After(c, v) ==
    CASE c.c = "Ge" -> GeAfter(c, v)
      [] c.c = "ToLower" -> ToLowerAfter(c, v)
      [] c.c = "ToUpper" -> ToUpperAfter(c, v)
      [] c.c = "UrlConstraints" -> UrlConstraintsAfter(c, v)
      [] OTHER -> Ret(v)

----------------------------------------------------------------------------
(* Type descriptors *)

TInt == [tag |-> "int"]
TFloat == [tag |-> "float"]
TStr == [tag |-> "str"]
TBool == [tag |-> "bool"]
TAny == [tag |-> "any"]
Prims == {"int", "float", "str", "bool"}
Union(ms) == [tag |-> "union", members |-> ms]
ListOf(T) == [tag |-> "list", elem |-> T]
SetOf(T) == [tag |-> "set", elem |-> T]
TupleVar(T) == [tag |-> "tuple_var", elem |-> T]
TupleFix(ts) == [tag |-> "tuple", elems |-> ts]
Model(name) == [tag |-> "model", name |-> name]

\* typing.Annotated flattens a nested Annotated: the inner metadata first
Annotated(T, meta) ==
    IF T.tag = "annotated"
    THEN [tag |-> "annotated", inner |-> T.inner, meta |-> T.meta \o meta]
    ELSE [tag |-> "annotated", inner |-> T, meta |-> meta]

----------------------------------------------------------------------------
(* Model classes: what the dataclass decorator was given *)

UNSET == "UNSET"

\* cwtch.field(...) with the defaults of Field.__init__
Fld(name, T) ==
    [name |-> name, type |-> T, default |-> MISSING, default_factory |-> MISSING,
     init |-> TRUE, init_alias |-> "", kw_only |-> FALSE, validate |-> UNSET,
     compare |-> UNSET]

\* Field(default=..., default_factory=...): every argument is stored as it
\* is given; name and type stay unset until a class is built
Field(default, default_factory) ==
    [Fld("", TAny) EXCEPT !.default = default, !.default_factory = default_factory]

\* a default_factory is a callable; the model keeps what it returns
Factory(v) == [k |-> "callable", returns |-> v]

Cls(name, fields, extra, post_init) ==
    [name |-> name, fields |-> fields, validate |-> TRUE, extra |-> extra,
     post_init |-> post_init]

\* i: int; s: str = "s"
M == Cls("M", <<Fld("i", TInt), [Fld("s", TStr) EXCEPT !.default = StrV("s")]>>,
         "ignore", "absent")
\* extra="forbid"
MF == Cls("MF", <<Fld("i", TInt)>>, "forbid", "absent")
\* extra="allow"
MA == Cls("MA", <<[Fld("i", TInt) EXCEPT !.default = IntV(0)]>>, "allow", "absent")
\* a: int = field(kw_only=True); b: int; c: list[int] = field(default_factory=...)
MK == Cls("MK",
          <<[Fld("a", TInt) EXCEPT !.kw_only = TRUE],
            Fld("b", TInt),
            [Fld("c", ListOf(TInt)) EXCEPT !.default_factory = Factory(ListV(<<StrV("1")>>))]>>,
          "ignore", "absent")
\* x: int, with a __post_init__ that raises when x == 0
MPV == Cls("MPV", <<Fld("x", TInt)>>, "ignore", "ValueError")
MPT == Cls("MPT", <<Fld("x", TInt)>>, "ignore", "TypeError")
MPR == Cls("MPR", <<Fld("x", TInt)>>, "ignore", "RuntimeError")
\* i: int = field(default=7, init_alias="I"), extra="forbid"
ML == Cls("ML", <<[Fld("i", TInt) EXCEPT !.default = IntV(7), !.init_alias = "I"]>>,
          "forbid", "absent")
\* r: float = field(validate=False); n: int = field(init=False, default=0)
MN == Cls("MN",
          <<[Fld("r", TFloat) EXCEPT !.validate = "False", !.default = StrV("a")],
            [Fld("n", TInt) EXCEPT !.init = FALSE, !.default = IntV(0)]>>,
          "ignore", "absent")
\* inner: MPR
MO == Cls("MO", <<Fld("inner", Model("MPR"))>>, "ignore", "absent")
\* i: int = field(default=7, init_alias="I")
MI == Cls("MI", <<[Fld("i", TInt) EXCEPT !.default = IntV(7), !.init_alias = "I"]>>,
          "ignore", "absent")

\* j: Annotated[str | int, JsonLoads()]
MJ == Cls("MJ", <<Fld("j", Annotated(Union(<<TStr, TInt>>), <<JsonLoads>>))>>,
          "ignore", "absent")

\* d: int = "1"; e: int = "a": defaults that are not of the field's type
MD == Cls("MD",
          <<[Fld("d", TInt) EXCEPT !.default = StrV("1")],
            [Fld("e", TInt) EXCEPT !.default = StrV("a")]>>,
          "ignore", "absent")
\* validate=False on the class; r: int; t: int = field(validate=True)
MV == [Cls("MV", <<Fld("r", TInt), [Fld("t", TInt) EXCEPT !.validate = "True"]>>,
           "ignore", "absent") EXCEPT !.validate = FALSE]

\* @dataclass(env_prefix=["a_", "B_"], env_source=...):
\* i: int = 0; j: int = field(default_factory=lambda: 7); r: int
ME == [name |-> "ME",
       fields |-> <<[Fld("i", TInt) EXCEPT !.default = IntV(0)],
                    [Fld("j", TInt) EXCEPT !.default_factory = Factory(IntV(7))],
                    Fld("r", TInt)>>,
       validate |-> TRUE, extra |-> "ignore", post_init |-> "absent",
       env_prefixes |-> <<"a_", "B_">>]
\* env_prefixes is not UNSET
HasEnv(m) == "env_prefixes" \in DOMAIN m

Classes == <<M, MF, MA, MK, MPV, MPT, MPR, ML, MN, MO, MI, MJ, MD, MV>>
ClassOf(name) == Classes[CHOOSE i \in 1..Len(Classes) : Classes[i].name = name]

\* the user's __post_init__ of the classes above: reject x == 0
HookRejects(attrs) == Len(attrs) > 0 /\ attrs[1].val = IntV(0)

----------------------------------------------------------------------------
(* Keyword arguments and the generated signature *)

HasKey(kv, key) == \E i \in 1..Len(kv) : kv[i].key = key
Get(kv, key) == kv[CHOOSE i \in 1..Len(kv) : kv[i].key = key].val

InitFields(m) == SelectSeq(m.fields, LAMBDA f : f.init)
AnyFields(m) == SelectSeq(InitFields(m), LAMBDA f : ~f.kw_only)
KwOnlyFields(m) == SelectSeq(InitFields(m), LAMBDA f : f.kw_only)
\* mutant: the fields are handled as declared
InitOrderDeclared(m) == InitFields(m)

\* the order in which the generated body handles the fields
InitOrder(m) == AnyFields(m) \o KwOnlyFields(m)
IsParam(m, key) == \E i \in 1..Len(InitFields(m)) : InitFields(m)[i].name = key
\* a keyword that names no parameter lands in **__extra_kwds
ExtraKwds(m, kw) == SelectSeq(kw, LAMBDA p : ~IsParam(m, p.key))
Arg(kw, f) == IF HasKey(kw, f.name) THEN Get(kw, f.name) ELSE MISSING

\* mutant: the check is generated for every policy but "ignore"
ForbidCheckUnlessIgnore(m, extra) ==
    IF m.extra # "ignore" /\ Len(extra) > 0
    THEN IF \E i \in 1..Len(InitFields(m)) : InitFields(m)[i].init_alias # ""
         THEN Exc("NameError", "name is not defined")
         ELSE ExcName("TypeError", "__init__() got an unexpected keyword argument",
                      extra[Len(extra)].key)
    ELSE Ret(MISSING)

\* extra == "forbid": the set literal is built from the bare alias names
ForbidCheck(m, extra) ==
    IF m.extra = "forbid" /\ Len(extra) > 0
    THEN IF \E i \in 1..Len(InitFields(m)) : InitFields(m)[i].init_alias # ""
         THEN Exc("NameError", "name is not defined")
         ELSE ExcName("TypeError", "__init__() got an unexpected keyword argument",
                      extra[1].key)
    ELSE Ret(MISSING)

\* the value a field starts from, and where it came from
ResolveField(f, a, extra) ==
    IF a # MISSING THEN [exc |-> "none", val |-> a, how |-> "arg"]
    ELSE IF f.init_alias # "" /\ HasKey(extra, f.init_alias)
    THEN [exc |-> "none", val |-> Get(extra, f.init_alias), how |-> "alias"]
    ELSE IF f.default # MISSING
    THEN [exc |-> "none", val |-> f.default, how |-> "default"]
    ELSE IF f.default_factory # MISSING
    THEN [exc |-> "none", val |-> f.default_factory.returns, how |-> "default_factory"]
    ELSE ExcName("TypeError", "__init__() missing required argument", f.name)

\* f'{env_prefix}{f_name}'.upper(), for the prefixes and names of the universe
EnvKeys ==
    {<<"a_", "i", "A_I">>, <<"a_", "j", "A_J">>, <<"a_", "r", "A_R">>,
     <<"B_", "i", "B_I">>, <<"B_", "j", "B_J">>, <<"B_", "r", "B_R">>}
EnvKey(prefix, name) == (CHOOSE t \in EnvKeys : t[1] = prefix /\ t[2] = name)[3]

\* env_value[0] in ('[', '{') and env_value[-1] in (']', '}'), for the texts
\* of the universe; the empty text has no first character
Bracketed(text) == text \in {"[1]", "[x]"}
EnvValue(text) ==
    IF text = "" THEN Exc("IndexError", "string index out of range")
    ELSE IF Bracketed(text) /\ IsJson(text) THEN Ret(JsonOf(text))
    ELSE Ret(StrV(text))

\* the prefixes, by position, under which the field has a variable
EnvHits(m, f, env) ==
    {p \in 1..Len(m.env_prefixes) : HasKey(env, EnvKey(m.env_prefixes[p], f.name))}

RECURSIVE EnvData(_, _, _, _)
\* v: what the variable of field i holds, read and decoded
EnvRead(v, m, env, i, acc) ==
    IF v.exc # "none" THEN v
    ELSE EnvData(m, env, i + 1, Append(acc, KV(m.fields[i].name, v.val)))

\* env_data: for every field of the class, the variable of the first prefix
\* that has one
EnvData(m, env, i, acc) ==
    IF i > Len(m.fields) THEN Ret(acc)
    ELSE IF EnvHits(m, m.fields[i], env) = {} THEN EnvData(m, env, i + 1, acc)
    ELSE EnvRead(EnvValue(Get(env, EnvKey(m.env_prefixes[
                     CHOOSE p \in EnvHits(m, m.fields[i], env) :
                         \A q \in EnvHits(m, m.fields[i], env) : p <= q],
                     m.fields[i].name))),
                 m, env, i, acc)

\* with env_prefix: the argument, else env_data, else the default, else
\* default_factory(); init_alias is not consulted
ResolveFieldEnv(f, a, env_data) ==
    IF a # MISSING THEN [exc |-> "none", val |-> a, how |-> "arg"]
    ELSE IF HasKey(env_data, f.name)
    THEN [exc |-> "none", val |-> Get(env_data, f.name), how |-> "env"]
    ELSE IF f.default # MISSING
    THEN [exc |-> "none", val |-> f.default, how |-> "default"]
    ELSE IF f.default_factory # MISSING
    THEN [exc |-> "none", val |-> f.default_factory.returns, how |-> "default_factory"]
    ELSE ExcName("TypeError", "__init__() missing required argument", f.name)

FieldValidated(m, f) == f.validate = "True" \/ (f.validate = UNSET /\ m.validate)

----------------------------------------------------------------------------
(* The validator *)

RECURSIVE Validator(_, _, _)
RECURSIVE validate_value(_, _, _)
RECURSIVE TryMembers(_, _, _, _, _)
RECURSIVE ValidateElems(_, _, _, _, _)
RECURSIVE RunBefore(_, _, _, _)
RECURSIVE RunAfter(_, _, _, _)
RECURSIVE SetFields(_, _, _, _, _, _, _)
RECURSIVE asdict(_)
RECURSIVE eq(_, _)

\* mutant: only the exception types a field's validation catches are wrapped
WrapErrorNarrow(r, T) ==
    IF r.exc \in {"TypeError", "ValueError"}
    THEN Raise("ValidationError", VError(T, <<r.err>>, <<>>), r.st)
    ELSE r

\* a native exception leaving a validator becomes a ValidationError for T;
\* a ValidationError passes through as raised
WrapError(r, T) ==
    IF r.exc \in {"none", "ValidationError"} THEN r
    ELSE Raise("ValidationError", VError(T, <<r.err>>, <<>>), r.st)

validate_value(v, T, st) ==
    LET r == WrapError(Validator(v, T, [st EXCEPT !.d = @ + 1]), T)
    IN  [r EXCEPT !.st.d = st.d]

Lift(h, st) == IF h.exc = "none" THEN Ok(h.val, st) ELSE Raise(h.exc, h.err, st)

\* a value that already is an instance of a plain member is returned as is
IsInstance(v, T) ==
    \/ T.tag = "any"
    \/ T.tag \in Prims /\ v.k = T.tag
    \/ T.tag = "model" /\ v.k = "inst" /\ v.cls = T.name

UnionFastPath(v, T) == \E i \in 1..Len(T.members) : IsInstance(v, T.members[i])

\* mutant: the members are tried from the last one back
RECURSIVE TryMembersReversed(_, _, _, _, _)
TryMembersReversed(v, T, i, errs, st) ==
    IF i > Len(T.members)
    THEN Raise("ValidationError", VError(T, errs, <<>>), st)
    ELSE LET k == Len(T.members) + 1 - i
             r == validate_value(v, T.members[k], Log(st, [ev |-> "member", i |-> k]))
         IN  IF r.exc = "none" THEN r
             ELSE TryMembersReversed(v, T, i + 1, Append(errs, r.err), r.st)

\* mutant: only the last member's failure is kept
RECURSIVE TryMembersLastError(_, _, _, _, _)
TryMembersLastError(v, T, i, errs, st) ==
    IF i > Len(T.members)
    THEN Raise("ValidationError", VError(T, errs, <<>>), st)
    ELSE LET r == validate_value(v, T.members[i], Log(st, [ev |-> "member", i |-> i]))
         IN  IF r.exc = "none" THEN r
             ELSE TryMembersLastError(v, T, i + 1, <<r.err>>, r.st)

\* r: what member i made of v; the first success is the result
MemberTried(r, v, T, i, errs) ==
    IF r.exc = "none" THEN r ELSE TryMembers(v, T, i + 1, Append(errs, r.err), r.st)

TryMembers(v, T, i, errs, st) ==
    IF i > Len(T.members)
    THEN Raise("ValidationError", VError(T, errs, <<>>), st)
    ELSE MemberTried(validate_value(v, T.members[i], Log(st, [ev |-> "member", i |-> i])),
                     v, T, i, errs)

validate_union(v, T, st) ==
    IF UnionFastPath(v, T) THEN Ok(v, st) ELSE TryMembers(v, T, 1, <<>>, st)

ElemType(T, i) == IF T.tag = "tuple" THEN T.elems[i] ELSE T.elem

\* mutant: every element is validated and the last failure is raised
RECURSIVE ValidateElemsAll(_, _, _, _, _)
ValidateElemsAll(v, T, i, acc, st) ==
    IF i > Len(v.xs) THEN Ok(acc, st)
    ELSE LET r == validate_value(v.xs[i], ElemType(T, i), Log(st, [ev |-> "elem", i |-> i - 1]))
             rest == ValidateElemsAll(v, T, i + 1,
                                      IF r.exc = "none" THEN Append(acc, r.val) ELSE acc, r.st)
         IN  IF rest.exc # "none" \/ r.exc = "none" THEN rest
             ELSE Raise("ValidationError", VError(T, <<r.err>>, <<PIdx(i - 1)>>), rest.st)

\* r: what the element type made of element i
ElemValidated(r, v, T, i, acc) ==
    IF r.exc = "none" THEN ValidateElems(v, T, i + 1, Append(acc, r.val), r.st)
    ELSE Raise("ValidationError", VError(T, <<r.err>>, <<PIdx(i - 1)>>), r.st)

\* elements in source order; the first failure is raised with its index
ValidateElems(v, T, i, acc, st) ==
    IF i > Len(v.xs) THEN Ok(acc, st)
    ELSE ElemValidated(validate_value(v.xs[i], ElemType(T, i),
                                      Log(st, [ev |-> "elem", i |-> i - 1])),
                       v, T, i, acc)

RECURSIVE Dedup(_)
Dedup(xs) ==
    IF xs = <<>> THEN <<>>
    ELSE LET rest == Dedup(Tail(xs))
         IN  IF \E j \in 1..Len(rest) : rest[j] = Head(xs) THEN rest ELSE <<Head(xs)>> \o rest

Container(T, xs) ==
    CASE T.tag = "list" -> ListV(xs)
      [] T.tag = "set" -> SetV(Dedup(xs))
      [] OTHER -> TupleV(xs)

\* r: the validated elements, or the first failure
ElemsDone(r, T) == IF r.exc = "none" THEN Ok(Container(T, r.val), r.st) ELSE r

\* mutant: a fixed tuple pairs types and elements up to the shorter of both
validate_containerZip(v, T, st) ==
    IF v.k \notin {"list", "tuple", "set"}
    THEN Raise("TypeError", Leaf("TypeError", "object is not iterable"), st)
    ELSE IF T.tag = "tuple" /\ Len(v.xs) > Len(T.elems)
    THEN ElemsDone(ValidateElems([v EXCEPT !.xs = SubSeq(v.xs, 1, Len(T.elems))],
                                 T, 1, <<>>, st), T)
    ELSE ElemsDone(ValidateElems(v, T, 1, <<>>, st), T)

validate_container(v, T, st) ==
    IF v.k \notin {"list", "tuple", "set"}
    THEN Raise("TypeError", Leaf("TypeError", "object is not iterable"), st)
    ELSE IF T.tag = "tuple" /\ Len(v.xs) # Len(T.elems)
    THEN Raise("ValueError", Leaf("ValueError", "invalid arguments count"), st)
    ELSE ElemsDone(ValidateElems(v, T, 1, <<>>, st), T)

BeforeDone(r, T, i) == IF r.exc = "none" THEN RunBefore(r.val, T, i + 1, r.st) ELSE r
AfterDone(r, T, i) == IF r.exc = "none" THEN RunAfter(r.val, T, i + 1, r.st) ELSE r

\* before hooks in metadata order, each fed the previous hook's output
RunBefore(v, T, i, st) ==
    IF i > Len(T.meta) THEN Ok(v, st)
    ELSE BeforeDone(Lift(Before(T.meta[i], v), Log(st, [ev |-> "before", i |-> i, arg |-> v])),
                    T, i)

RunAfter(v, T, i, st) ==
    IF i > Len(T.meta) THEN Ok(v, st)
    ELSE AfterDone(Lift(After(T.meta[i], v), Log(st, [ev |-> "after", i |-> i, arg |-> v])),
                   T, i)

\* r: the base coercion's outcome; the after hooks run on its value
BaseDone(r, T) == IF r.exc # "none" THEN r ELSE RunAfter(r.val, T, 1, r.st)
\* b: the before hooks' outcome; the base coercion runs on its value
BeforeAllDone(b, T) ==
    IF b.exc # "none" THEN b
    ELSE BaseDone(validate_value(b.val, T.inner, Log(b.st, [ev |-> "base", arg |-> b.val])), T)

validate_annotated(v, T, st) == BeforeAllDone(RunBefore(v, T, 1, st), T)

----------------------------------------------------------------------------
(* The generated __init__ (_create_init) *)

\* r: the field's validated value; the attribute is set, or the failure
\* of the validation is raised for the class with the field as path
FieldSet(r, m, kw, extra, i, attrs, fset, f) ==
    IF r.exc = "none"
    THEN SetFields(m, kw, extra, i + 1, Append(attrs, KV(f.name, r.val)), fset, r.st)
    ELSE IF r.exc \in {"TypeError", "ValueError", "ValidationError"}
    THEN Raise("ValidationError", VError(Model(m.name), <<r.err>>, <<PKey(f.name)>>), r.st)
    ELSE r

\* mutant: only a value the caller supplied is validated, a default is
\* stored as declared
FieldResolvedDefaultsRaw(src, m, kw, extra, i, attrs, fset, f, st) ==
    IF src.exc # "none" THEN Raise(src.exc, src.err, st)
    ELSE FieldSet(IF FieldValidated(m, f) /\ src.how \in {"arg", "alias"}
                  THEN validate_value(src.val, f.type,
                                      Log(st, [ev |-> "field", name |-> f.name,
                                               how |-> src.how, arg |-> src.val]))
                  ELSE Ok(src.val, Log(st, [ev |-> "field", name |-> f.name,
                                            how |-> src.how, arg |-> src.val])),
                  m, kw, extra, i, attrs,
                  IF src.how = "arg" THEN Append(fset, f.name) ELSE fset, f)

\* mutant: a field filled from its init_alias key counts as set
FieldResolvedAliasSet(src, m, kw, extra, i, attrs, fset, f, st) ==
    IF src.exc # "none" THEN Raise(src.exc, src.err, st)
    ELSE FieldSet(IF FieldValidated(m, f)
                  THEN validate_value(src.val, f.type,
                                      Log(st, [ev |-> "field", name |-> f.name,
                                               how |-> src.how, arg |-> src.val]))
                  ELSE Ok(src.val, Log(st, [ev |-> "field", name |-> f.name,
                                            how |-> src.how, arg |-> src.val])),
                  m, kw, extra, i, attrs,
                  IF src.how \in {"arg", "alias"} THEN Append(fset, f.name) ELSE fset, f)

\* src: where the field's value comes from
FieldResolved(src, m, kw, extra, i, attrs, fset, f, st) ==
    IF src.exc # "none" THEN Raise(src.exc, src.err, st)
    ELSE FieldSet(IF FieldValidated(m, f)
                  THEN validate_value(src.val, f.type,
                                      Log(st, [ev |-> "field", name |-> f.name,
                                               how |-> src.how, arg |-> src.val]))
                  ELSE Ok(src.val, Log(st, [ev |-> "field", name |-> f.name,
                                            how |-> src.how, arg |-> src.val])),
                  m, kw, extra, i, attrs,
                  IF src.how = "arg" THEN Append(fset, f.name) ELSE fset, f)

\* extra: what a missing argument is looked up in, __extra_kwds for a class
\* without env_prefix and env_data for a class with it
SetFields(m, kw, extra, i, attrs, fset, st) ==
    IF i > Len(InitOrder(m)) THEN Ok([attrs |-> attrs, fields_set |-> fset], st)
    ELSE FieldResolved(IF HasEnv(m)
                       THEN ResolveFieldEnv(InitOrder(m)[i], Arg(kw, InitOrder(m)[i]), extra)
                       ELSE ResolveField(InitOrder(m)[i], Arg(kw, InitOrder(m)[i]), extra),
                       m, kw, extra, i, attrs, fset, InitOrder(m)[i], st)

\* e: env_data, or the exception reading the environment raised
EnvScanned(e, m, kw, st) ==
    IF e.exc # "none" THEN Raise(e.exc, e.err, st)
    ELSE IF ForbidCheck(m, ExtraKwds(m, kw)).exc # "none"
    THEN Raise(ForbidCheck(m, ExtraKwds(m, kw)).exc, ForbidCheck(m, ExtraKwds(m, kw)).err, st)
    ELSE SetFields(m, kw, e.val, 1, <<>>, <<>>, st)

\* the environment is read first, then the fields are set; st.env is what
\* env_source() returns
InitBody(m, kw, st) ==
    IF Len(InitFields(m)) = 0 THEN Ok([attrs |-> <<>>, fields_set |-> <<>>], st)
    ELSE IF HasEnv(m) THEN EnvScanned(EnvData(m, st.env, 1, <<>>), m, kw, st)
    ELSE LET chk == ForbidCheck(m, ExtraKwds(m, kw))
         IN  IF chk.exc # "none" THEN Raise(chk.exc, chk.err, st)
             ELSE SetFields(m, kw, ExtraKwds(m, kw), 1, <<>>, <<>>, st)

\* mutant: the handler catches every exception
PostInitCatchAll(m, inst, st) ==
    IF m.post_init = "absent" THEN Ok(inst, st)
    ELSE LET st1 == Log(st, [ev |-> "post_init", cls |-> m.name])
         IN  IF ~HookRejects(inst.attrs) THEN Ok(inst, st1)
             ELSE Raise("ValidationError",
                        VError(Model(m.name), <<Leaf(m.post_init, "rejected by __post_init__")>>,
                               <<PHook(m.name, "__post_init__")>>), st1)

\* only a ValueError of __post_init__ is turned into a ValidationError
PostInit(m, inst, st) ==
    IF m.post_init = "absent" THEN Ok(inst, st)
    ELSE LET st1 == Log(st, [ev |-> "post_init", cls |-> m.name])
         IN  IF ~HookRejects(inst.attrs) THEN Ok(inst, st1)
             ELSE IF m.post_init = "ValueError"
             THEN Raise("ValidationError",
                        VError(Model(m.name), <<Leaf("ValueError", "rejected by __post_init__")>>,
                               <<PHook(m.name, "__post_init__")>>), st1)
             ELSE Raise(m.post_init, Leaf(m.post_init, "rejected by __post_init__"), st1)

\* b: the outcome of the generated body for the new object id
BodyDone(b, m, id) ==
    IF b.exc # "none" THEN b
    ELSE PostInit(m, [k |-> "inst", cls |-> m.name, id |-> id,
                      attrs |-> b.val.attrs, fields_set |-> b.val.fields_set], b.st)

\* cls(**kw): a new object, then the generated body, then __post_init__
Construct(m, kw, st) ==
    BodyDone(InitBody(m, kw, [Log(st, [ev |-> "init", cls |-> m.name]) EXCEPT !.nid = @ + 1]),
             m, st.nid)

\* mutant: an instance is taken apart and built again
validate_modelRebuild(v, T, st) ==
    IF v.k = "inst" /\ v.cls = T.name THEN Construct(ClassOf(T.name), v.attrs, st)
    ELSE IF v.k = "dict" THEN Construct(ClassOf(T.name), v.kv, st)
    ELSE Raise("TypeError", Leaf("TypeError", "value is not a mapping"), st)

validate_model(v, T, st) ==
    IF v.k = "inst" /\ v.cls = T.name THEN Ok(v, st)
    ELSE IF v.k = "dict" THEN Construct(ClassOf(T.name), v.kv, st)
    ELSE Raise("TypeError", Leaf("TypeError", "value is not a mapping"), st)

\* core asdict(inst): a dict keyed by field name; nested instances and the
\* elements of containers are taken apart likewise
asdict(v) ==
    CASE v.k = "inst" ->
            DictV([i \in 1..Len(v.attrs) |-> KV(v.attrs[i].key, asdict(v.attrs[i].val))])
      [] v.k \in {"list", "tuple", "set"} ->
            [v EXCEPT !.xs = [i \in 1..Len(v.xs) |-> asdict(v.xs[i])]]
      [] OTHER -> v

\* mutant: no __eq__ is generated, objects compare by identity
eqIdentity(a, b) ==
    IF a.k = "inst" /\ b.k = "inst" THEN a.id = b.id ELSE a = b

\* a == b: the generated __eq__ on instances, Python's == on other values
eq(a, b) ==
    IF a.k = "inst" /\ b.k = "inst"
    THEN \/ a.id = b.id
         \/ /\ a.cls = b.cls
            /\ \A i \in 1..Len(ClassOf(a.cls).fields) :
                   LET f == ClassOf(a.cls).fields[i]
                   IN  f.compare # "False" /\ HasKey(a.attrs, f.name)
                           => eq(Get(a.attrs, f.name), Get(b.attrs, f.name))
    ELSE IF a.k \in {"list", "tuple"} /\ b.k = a.k
    THEN Len(a.xs) = Len(b.xs) /\ \A i \in 1..Len(a.xs) : eq(a.xs[i], b.xs[i])
    ELSE IF IsNum(a) /\ IsNum(b) THEN Num(a) = Num(b)
    ELSE a = b

----------------------------------------------------------------------------
(* Secret types.  A URL is held as what urlparse makes of it; a text is the
   sequence of its parts *)

\* parsed.netloc: the user name and password, when there are any, the host
\* and the port
Netloc(u) ==
    (IF u.username = "" THEN <<>>
     ELSE <<u.username>> \o (IF u.password = "" THEN <<>> ELSE <<":", u.password>>) \o <<"@">>)
    \o <<u.hostname>> \o (IF u.port = "" THEN <<>> ELSE <<":", u.port>>)

\* f"***:***@{parsed.hostname}" and the port when there is one
MaskedNetloc(u) == <<"***:***@", u.hostname>> \o (IF u.port = "" THEN <<>> ELSE <<":", u.port>>)

\* ParseResult.geturl(): a netloc without a scheme is written after "//"
geturl(scheme, netloc, path) ==
    (IF scheme # "" THEN <<scheme, "://">> ELSE <<"//">>) \o netloc \o <<path>>

\* SecretUrl(value): the str content is masked only when the URL has a scheme
SecretUrl(u) ==
    [k |-> "SecretUrl",
     str |-> IF u.scheme # "" THEN geturl(u.scheme, MaskedNetloc(u), u.path)
             ELSE geturl(u.scheme, Netloc(u), u.path),
     value |-> geturl(u.scheme, Netloc(u), u.path)]

\* SecretStr(value): the str content is "***"
SecretStr(v) == [k |-> "SecretStr", str |-> <<"***">>, value |-> <<v>>]

\* str(x), format(x), repr(x), and the text of asdict(x) and of JSON dumping
\* without the context show_secrets
Render(x) ==
    [str |-> x.str, format |-> x.str, repr |-> <<x.k, "(">> \o x.str \o <<")">>,
     asdict |-> x.str, asjson |-> x.str]

----------------------------------------------------------------------------
(* Dispatch on the type *)

\* _validate_hostname, for the host names of the universe
ValidHostname(h) == h \in {"localhost", "example.com"}

\* Url(value) and SecretUrl(value) as the validator of the type calls them:
\* the text is parsed, the host name checked, and the object keeps what was
\* parsed
validate_url(v, T, st) ==
    IF v.k # "urltext"
    THEN Raise("ValueError", Leaf("ValueError", "invalid URL"), st)
    ELSE IF v.hostname # "" /\ ~ValidHostname(v.hostname)
    THEN Raise("ValueError", Leaf("ValueError", "invalid hostname"), st)
    ELSE Ok([k |-> T.tag, scheme |-> v.scheme, hostname |-> v.hostname, port |-> v.port,
             str |-> IF T.tag = "Url" THEN geturl(v.scheme, Netloc(v), v.path)
                     ELSE SecretUrl(v).str], st)

Validator(v, T, st) ==
    CASE T.tag = "int" -> Lift(validate_int(v), st)
      [] T.tag = "float" -> Lift(validate_float(v), st)
      [] T.tag = "str" -> Lift(validate_str(v), st)
      [] T.tag = "bool" -> Lift(validate_bool(v), st)
      [] T.tag = "any" -> Ok(v, st)
      [] T.tag = "union" -> validate_union(v, T, st)
      [] T.tag \in {"list", "set", "tuple_var", "tuple"} -> validate_container(v, T, st)
      [] T.tag = "annotated" -> validate_annotated(v, T, st)
      [] T.tag = "model" -> validate_model(v, T, st)
      [] T.tag \in {"Url", "SecretUrl"} -> validate_url(v, T, st)

----------------------------------------------------------------------------
(* Views *)

\* include / exclude of @view(...): UNSET, or the names given
Unset == [given |-> FALSE, names |-> {}]
Names(S) == [given |-> TRUE, names |-> S]

FieldNames(fields) == {fields[i].name : i \in 1..Len(fields)}
FieldNamed(fields, name) == fields[CHOOSE i \in 1..Len(fields) : fields[i].name = name]

\* mutant: a name the parent already has keeps the parent's field
OverlayNewOnly(fields, body) ==
    fields \o SelectSeq(body, LAMBDA f : f.name \notin FieldNames(fields))

\* __dataclass_fields__[f_name] = f for each annotation of the view body: a
\* known name keeps its place and takes the new field, a new name is appended
Overlay(fields, body) ==
    [i \in 1..Len(fields) |->
        IF fields[i].name \in FieldNames(body) THEN FieldNamed(body, fields[i].name)
        ELSE fields[i]]
    \o SelectSeq(body, LAMBDA f : f.name \notin FieldNames(fields))

\* the view parameters: those of the parent view, if the parent is one,
\* updated by the parameters given to the decorator
ViewParams(parent, include, exclude) ==
    [include |-> IF include.given THEN include
                 ELSE IF "view_params" \in DOMAIN parent THEN parent.view_params.include
                 ELSE Unset,
     exclude |-> IF exclude.given THEN exclude
                 ELSE IF "view_params" \in DOMAIN parent THEN parent.view_params.exclude
                 ELSE Unset]

\* fields: the overlaid fields; the view class keeps those that pass
\* include and exclude, and __rich_repr__ needs at least one of them
ViewBuilt(parent, fields, params, st) ==
    IF params.include.names # {} /\ params.include.names \ FieldNames(fields) # {}
    THEN Raise("Exception", Leaf("Exception", "fields not present"), st)
    ELSE IF SelectSeq(fields, LAMBDA f : /\ params.include.given => f.name \in params.include.names
                                          /\ f.name \notin params.exclude.names) = <<>>
    THEN Raise("Exception", Leaf("Exception", "unable to create __rich_repr__ method"), st)
    ELSE Ok([k |-> "view",
             fields |-> SelectSeq(fields,
                            LAMBDA f : /\ params.include.given => f.name \in params.include.names
                                       /\ f.name \notin params.exclude.names),
             view_params |-> params,
             view_base |-> IF "view_base" \in DOMAIN parent THEN parent.view_base ELSE parent],
            st)

_build_view(parent, body, include, exclude, st) ==
    ViewBuilt(parent, Overlay(parent.fields, body), ViewParams(parent, include, exclude), st)

\* @view(include=..., exclude=...) class V(parent): body
view(parent, body, include, exclude, st) ==
    IF exclude.names \cap FieldNames(body) # {}
    THEN Raise("ValueError", Leaf("ValueError", "unable to exclude fields"), st)
    ELSE _build_view(parent, body, include, exclude, st)

----------------------------------------------------------------------------
(* validate_args and validate_call *)

\* def foo(s: str, i: int = None)
foo == [name |-> "foo", params |-> <<[name |-> "s", type |-> TStr],
                                     [name |-> "i", type |-> TInt]>>]

\* zip stops at the shorter of the arguments and the parameters
ZipLen(fn, args) == IF Len(args) < Len(fn.params) THEN Len(args) ELSE Len(fn.params)

\* zip(args, annotations.items()) followed by kwds.items(): each value with
\* the name of the parameter it is validated for
Bound(fn, args, kwds) ==
    [i \in 1..ZipLen(fn, args) |-> KV(fn.params[i].name, args[i])] \o kwds

ParamType(fn, name) ==
    fn.params[CHOOSE i \in 1..Len(fn.params) : fn.params[i].name = name].type

RECURSIVE ValidateBound(_, _, _, _, _)

\* r: the outcome of validate_value for the i-th value
ArgValidated(r, fn, bound, i, acc) ==
    IF r.exc = "none"
    THEN ValidateBound(fn, bound, i + 1, Append(acc, KV(bound[i].key, r.val)), r.st)
    ELSE IF r.exc = "ValidationError"
    THEN Raise("TypeError", LeafName("TypeError", "expects for argument", bound[i].key), r.st)
    ELSE r

ValidateBound(fn, bound, i, acc, st) ==
    IF i > Len(bound) THEN Ok(acc, st)
    ELSE ArgValidated(validate_value(bound[i].val, ParamType(fn, bound[i].key), st),
                      fn, bound, i, acc)

\* r: the validated values in order; the positional ones come first
ArgsSplit(r, n) ==
    IF r.exc # "none" THEN r
    ELSE Ok([k |-> "args",
             args |-> [i \in 1..n |-> r.val[i].val],
             kwds |-> SubSeq(r.val, n + 1, Len(r.val))], r.st)

validate_args(fn, args, kwds, st) ==
    ArgsSplit(ValidateBound(fn, Bound(fn, args, kwds), 1, <<>>, st),
              ZipLen(fn, args))

\* r: what validate_args did; its result is dropped and fn is called with
\* the arguments the wrapper was given
Invoked(r, args, kwds) ==
    IF r.exc # "none" THEN r
    ELSE Ok([k |-> "invoked", args |-> args, kwds |-> kwds], r.st)

validate_call(fn, args, kwds, st) == Invoked(validate_args(fn, args, kwds, st), args, kwds)

----------------------------------------------------------------------------
(* Generic models *)

\* typing's alias M[X]: two aliases of equal origin and arguments are equal
\* and hash alike
Alias(origin, X) == [k |-> "alias", origin |-> origin, args |-> X]

\* arg.__name__ exists for a class, not for a union such as int | str
HasName(X) == X.tag \in Prims

CacheHit(tp, g) == \E i \in 1..Len(g.cache) : g.cache[i].key = tp
Cached(tp, g) == g.cache[CHOOSE i \in 1..Len(g.cache) : g.cache[i].key = tp].cls

ClassRef(id) == [k |-> "class", id |-> id]

\* a new class named after the origin and the argument becomes an object
\* and the cache entry of the alias
NewClass(tp, g) ==
    [exc |-> "none", val |-> ClassRef(Len(g.objs) + 1),
     g |-> [g EXCEPT !.objs = Append(@, [origin |-> tp.origin, args |-> tp.args,
                                          instantiated |-> FALSE]),
                     !.cache = Append(@, [key |-> tp, cls |-> Len(g.objs) + 1])]]

\* mutant: the function is not wrapped in functools.cache
instantiate_genericUncached(tp, g) ==
    IF ~HasName(tp.args) THEN [exc |-> "AttributeError", val |-> MISSING, g |-> g]
    ELSE NewClass(tp, g)

\* @functools.cache: a second call with an equal alias returns the class
\* of the first; a call that raises leaves no entry
instantiate_generic(tp, g) ==
    IF CacheHit(tp, g) THEN [exc |-> "none", val |-> ClassRef(Cached(tp, g)), g |-> g]
    ELSE IF ~HasName(tp.args) THEN [exc |-> "AttributeError", val |-> MISSING, g |-> g]
    ELSE NewClass(tp, g)

\* r: what _instantiate_generic did; the class it returned is marked
Instantiated(r) ==
    IF r.exc # "none" THEN r
    ELSE [r EXCEPT !.g.objs[r.val.id].instantiated = TRUE]

class_getitem(origin, X, g) == Instantiated(instantiate_generic(Alias(origin, X), g))

\* functools.cache with several threads: the wrapper looks the alias up,
\* and on a miss calls the function and stores its result under the alias
\* when the function has returned.  No lock is held while the function
\* runs, so other threads run between the miss and the store.

\* a thread that is not inside M[X]
Waiting == [pc |-> "waiting"]
\* a thread whose lookup missed and whose _instantiate_generic call is running
Missed(tp) == [pc |-> "missed", tp |-> tp]

\* cache[key] = result: the entry of an equal key is replaced
CacheSet(cache, tp, cls) ==
    IF \E i \in 1..Len(cache) : cache[i].key = tp
    THEN [i \in 1..Len(cache) |-> IF cache[i].key = tp THEN [key |-> tp, cls |-> cls]
                                   ELSE cache[i]]
    ELSE Append(cache, [key |-> tp, cls |-> cls])

\* the function body has built its class; the wrapper stores and returns it
StoreClass(tp, g) ==
    [exc |-> "none", val |-> ClassRef(Len(g.objs) + 1),
     g |-> [g EXCEPT !.objs = Append(@, [origin |-> tp.origin, args |-> tp.args,
                                          instantiated |-> FALSE]),
                     !.cache = CacheSet(@, tp, Len(g.objs) + 1)]]

\* M[X] has been evaluated to the class r.val
Returned(r, tp) ==
    [r.g EXCEPT !.returned = @ \cup {[origin |-> tp.origin, arg |-> tp.args, id |-> r.val.id]}]

----------------------------------------------------------------------------
(* Classes with their field registries.  A class, its __dataclass_fields__
   dict and a Field are objects with an identity: a class names its dict, a
   dict maps field names to Field objects, and two classes can name one dict *)

TypeVarT == [tag |-> "typevar", name |-> "T"]

\* an entry of a class body: "name: type", or "name: type = field(...)"
Ann(name, T) == [name |-> name, type |-> T, field |-> FALSE, property |-> FALSE]
AnnField(name, T, property) == [name |-> name, type |-> T, field |-> TRUE, property |-> property]

NoFields ==
    [fieldobjs |-> <<>>, dicts |-> <<>>, classes |-> <<>>, props |-> 0, last |-> [op |-> "none"]]

Has(d, k) == \E i \in 1..Len(d) : d[i].key = k
\* d.get(k), 0 for no object
DictGet(d, k) == IF Has(d, k) THEN Get(d, k) ELSE 0
\* d[k] = v: a key that is there keeps its place
DictSet(d, k, v) ==
    IF Has(d, k) THEN [i \in 1..Len(d) |-> IF d[i].key = k THEN KV(k, v) ELSE d[i]]
    ELSE Append(d, KV(k, v))

FieldObj(id) == [k |-> "Field", id |-> id]
PropertyObj(id) == [k |-> "property", id |-> id]

\* Field(...): a new Field object
NewField(reg, f) == [reg EXCEPT !.fieldobjs = Append(@, f)]

\* the class body is evaluated: each field(...) call makes a Field object,
\* which is the class attribute of that name when _build starts
RECURSIVE BodyDefaults(_, _, _, _)
BodyDefaults(reg, body, i, defaults) ==
    IF i > Len(body) THEN [reg |-> reg, defaults |-> defaults]
    ELSE IF body[i].field
    THEN BodyDefaults(NewField(reg, [name |-> "", type |-> TAny, property |-> body[i].property]),
                      body, i + 1, Append(defaults, KV(body[i].name, Len(reg.fieldobjs) + 1)))
    ELSE BodyDefaults(reg, body, i + 1, defaults)

\* _build's loop over __annotations__: the Field of an annotated name is the
\* class attribute, else the entry of the dict, else a new Field; its name
\* and type are assigned and it is put into the dict
RECURSIVE FieldsAnnotated(_, _, _, _, _)
FieldsAnnotated(reg, did, annos, defaults, i) ==
    IF i > Len(annos) THEN reg
    ELSE LET a == annos[i]
             found == IF Has(defaults, a.key) THEN Get(defaults, a.key)
                      ELSE DictGet(reg.dicts[did], a.key)
             r == IF found = 0
                  THEN NewField(reg, [name |-> a.key, type |-> a.val, property |-> FALSE])
                  ELSE reg
             fid == IF found = 0 THEN Len(reg.fieldobjs) + 1 ELSE found
         IN  FieldsAnnotated([r EXCEPT !.fieldobjs[fid].name = a.key,
                                 !.fieldobjs[fid].type = a.val,
                                 !.dicts[did] = DictSet(@, a.key, fid)],
                       did, annos, defaults, i + 1)

\* the fields _create_init generates code for: names, types and flags as
\* they are when the class is built
InitFieldsOf(reg, did) ==
    [i \in 1..Len(reg.dicts[did]) |->
        [key |-> reg.dicts[did][i].key,
         type |-> reg.fieldobjs[reg.dicts[did][i].val].type,
         property |-> reg.fieldobjs[reg.dicts[did][i].val].property]]

\* @dataclass on "class name(base): body" (base 0: no model base): _build
\* takes getattr(cls, "__dataclass_fields__", {}), which for a subclass is
\* the dict object of the base, and sets it on the class it returns
Declare(reg, name, base, body) ==
    LET made == BodyDefaults(reg, body, 1, <<>>)
        did == IF base = 0 THEN Len(reg.dicts) + 1 ELSE reg.classes[base].dict
        r == IF base = 0 THEN [made.reg EXCEPT !.dicts = Append(@, <<>>)] ELSE made.reg
        annos == [i \in 1..Len(body) |-> KV(body[i].name, body[i].type)]
        built == FieldsAnnotated(r, did, annos, made.defaults, 1)
    IN  [built EXCEPT
            !.classes = Append(@, [name |-> name, base |-> base, dict |-> did,
                                   annotations |-> annos, attrs |-> <<>>,
                                   init |-> InitFieldsOf(built, did),
                                   origin |-> 0, arg |-> TAny,
                                   generic |-> \E i \in 1..Len(body) : body[i].type = TypeVarT]),
            !.last = [op |-> "declare", cls |-> Len(reg.classes) + 1, base |-> base]]

\* mutant: the Field to substitute in is not copied
_copy_fieldShared(reg, fid) == [reg |-> reg, fid |-> fid]
\* _copy_field: a new Field with the values of the old one
_copy_field(reg, fid) ==
    [reg |-> NewField(reg, reg.fieldobjs[fid]), fid |-> Len(reg.fieldobjs) + 1]

\* _get_fields_substitution: the fields of the origin typed by the type
\* variable, with the argument
_get_fields_substitution(reg, g, X) ==
    LET d == reg.dicts[reg.classes[g].dict]
        typed == SelectSeq(d, LAMBDA e : reg.fieldobjs[e.val].type = TypeVarT)
    IN  [i \in 1..Len(typed) |-> KV(typed[i].key, X)]

\* _get_substituted_fields on the dict did, a copy of the origin's: a field
\* whose type differs from its substitution is replaced by a copy that has it
RECURSIVE _get_substituted_fields(_, _, _, _)
_get_substituted_fields(reg, did, subst, i) ==
    IF i > Len(reg.dicts[did]) THEN reg
    ELSE LET e == reg.dicts[did][i]
         IN  IF Has(subst, e.key) /\ reg.fieldobjs[e.val].type # Get(subst, e.key)
             THEN LET c == _copy_field(reg, e.val)
                  IN  _get_substituted_fields(
                          [c.reg EXCEPT !.fieldobjs[c.fid].type = Get(subst, e.key),
                                        !.dicts[did][i] = KV(e.key, c.fid)],
                          did, subst, i + 1)
             ELSE _get_substituted_fields(reg, did, subst, i + 1)

_get_substituted_annotations(annos, subst) ==
    [i \in 1..Len(annos) |-> IF Has(subst, annos[i].key)
                              THEN KV(annos[i].key, Get(subst, annos[i].key))
                              ELSE annos[i]]

\* the body of _instantiate_generic for the origin g and the argument X: a
\* subclass of the origin with substituted fields and annotations, the
\* fields set as class attributes, rebuilt by _build
InstantiatedClass(reg, g, X) ==
    LET origin == reg.classes[g]
        subst == _get_fields_substitution(reg, g, X)
        did == Len(reg.dicts) + 1
        fields == _get_substituted_fields([reg EXCEPT !.dicts = Append(@, reg.dicts[origin.dict])],
                                          did, subst, 1)
        annos == _get_substituted_annotations(origin.annotations, subst)
        rebuilt == FieldsAnnotated(fields, did, annos, fields.dicts[did], 1)
    IN  [rebuilt EXCEPT
            !.classes = Append(@, [name |-> origin.name, base |-> g, dict |-> did,
                                   annotations |-> annos,
                                   attrs |-> [i \in 1..Len(rebuilt.dicts[did]) |->
                                                 KV(rebuilt.dicts[did][i].key,
                                                    FieldObj(rebuilt.dicts[did][i].val))],
                                   init |-> InitFieldsOf(rebuilt, did),
                                   origin |-> g, arg |-> X, generic |-> FALSE]),
            !.last = [op |-> "instantiate", cls |-> Len(reg.classes) + 1, origin |-> g]]

\* the generated __init__ of the class cid with every field given v: the
\* fields are validated in order, and the code of a property=True field
\* assigns a new property object to the class attribute of its name
RECURSIVE InitRun(_, _, _, _)
InitRun(reg, cid, v, i) ==
    IF i > Len(reg.classes[cid].init)
    THEN [reg EXCEPT !.last = [op |-> "construct", cls |-> cid, exc |-> "none"]]
    ELSE LET f == reg.classes[cid].init[i]
         IN  IF validate_value(v, f.type, [log |-> <<>>, nid |-> 1, d |-> 0]).exc # "none"
             THEN [reg EXCEPT !.last = [op |-> "construct", cls |-> cid,
                                        exc |-> "ValidationError"]]
             ELSE IF f.property
             THEN InitRun([reg EXCEPT !.props = @ + 1,
                                      !.classes[cid].attrs =
                                          DictSet(@, f.key, PropertyObj(reg.props + 1))],
                          cid, v, i + 1)
             ELSE InitRun(reg, cid, v, i + 1)

\* what can be seen of the class cid: its attributes and annotations, its
\* __dataclass_fields__ (which dict, which Field objects) and the Fields
ClassView(reg, cid) ==
    [cls |-> reg.classes[cid],
     dict |-> reg.dicts[reg.classes[cid].dict],
     fields |-> [i \in 1..Len(reg.dicts[reg.classes[cid].dict]) |->
                    reg.fieldobjs[reg.dicts[reg.classes[cid].dict][i].val]]]

\* the models declared at the start:
\*   class A: i: int
\*   class G(Generic[T]): x: T; y: int
\*   class P: x: int = field(property=True)
DeclaredAtStart ==
    Declare(Declare(Declare(NoFields, "A", 0, <<Ann("i", TInt)>>),
                    "G", 0, <<Ann("x", TypeVarT), Ann("y", TInt)>>),
            "P", 0, <<AnnField("x", TInt, TRUE)>>)

----------------------------------------------------------------------------
(* from_attributes and the context cache.  CACHE.get() is a dict that holds
   the slot "reset_circular_refs" and, for a class built with
   handle_circular_refs, the instances under construction by (cls, id(obj)) *)

\* cache["reset_circular_refs"] = reset_circular_refs
SlotSet(cache, reset) == [cache EXCEPT !.slot = reset]
\* del cache["reset_circular_refs"]: a KeyError when the slot is not there
SlotDel(cache) ==
    IF cache.slot = "absent" THEN [exc |-> "KeyError", cache |-> cache]
    ELSE [exc |-> "none", cache |-> [cache EXCEPT !.slot = "absent"]]
\* _cache_get()[__cwtch_cache_key] = __cwtch_self__
CacheStore(cache, key) == [cache EXCEPT !.keys = @ \cup {key}]
\* mutant: the key is removed at the end of the body, without try/finally
InitExitOnReturn(cache, key, exc) ==
    IF exc = "none" THEN [cache EXCEPT !.keys = @ \ {key}] ELSE cache
\* finally: _cache_get().pop(__cwtch_cache_key, None), whatever the body did
InitExit(cache, key, exc) == [cache EXCEPT !.keys = @ \ {key}]

\* models declared with handle_circular_refs=True:
\*   Inner: x: int
\*   Outer: a: int; b: int = field(default_factory=lambda: from_attributes(Inner, o).x)
\*   Hooked: a: int, and a __post_init__ that calls from_attributes(Inner, o)
Nested == [k |-> "callable", calls |-> "from_attributes"]
Inner == [name |-> "Inner", fields |-> <<Fld("x", TInt)>>, hook |-> "absent"]
Outer ==
    [name |-> "Outer",
     fields |-> <<Fld("a", TInt), [Fld("b", TInt) EXCEPT !.default_factory = Nested]>>,
     hook |-> "absent"]
Hooked == [name |-> "Hooked", fields |-> <<Fld("a", TInt)>>, hook |-> "from_attributes"]
CtxClass(name) ==
    CASE name = "Inner" -> Inner [] name = "Outer" -> Outer [] name = "Hooked" -> Hooked

\* the objects models are built from: one whose attributes validate, one
\* whose attributes do not
ObjAttrs(obj) ==
    IF obj = "good" THEN <<KV("x", IntV(1)), KV("a", StrV("1"))>>
    ELSE <<KV("x", StrV("a")), KV("a", StrV("a"))>>

\* kwds: the attributes of obj that are fields of the class
Kwds(cls, obj) ==
    SelectSeq(ObjAttrs(obj),
              LAMBDA p : \E i \in 1..Len(CtxClass(cls).fields) : CtxClass(cls).fields[i].name = p.key)

\* a call of from_attributes(cls, obj, reset_circular_refs=reset) in progress
Frame(cls, obj, reset) ==
    [cls |-> cls, obj |-> obj, reset |-> reset, pc |-> "init", i |-> 1, exc |-> "none",
     attrs |-> <<>>, hooked |-> FALSE]
\* __cwtch_cache_key=(cls, id(obj))
Key(frame) == <<frame.cls, frame.obj>>

\* no from_attributes call has ended yet
NoResult == [op |-> "none"]

NoContext == [cache |-> [slot |-> "absent", keys |-> {}], stack |-> <<>>, last |-> NoResult]

Top(c) == c.stack[Len(c.stack)]
SetTop(c, frame) == [c EXCEPT !.stack[Len(c.stack)] = frame]

\* from_attributes up to the constructor call: the slot is written and the
\* call becomes the running one
Enter(c, cls, obj, reset) ==
    [c EXCEPT !.cache = SlotSet(@, reset), !.stack = Append(@, Frame(cls, obj, reset))]

\* the field i of the running call is given the value v
FieldGiven(frame, v) ==
    LET f == CtxClass(frame.cls).fields[frame.i]
        r == validate_value(v, f.type, [log |-> <<>>, nid |-> 1, d |-> 0])
    IN  IF r.exc # "none" THEN [frame EXCEPT !.exc = "ValidationError", !.pc = "finally"]
        ELSE [frame EXCEPT !.attrs = Append(@, KV(f.name, r.val)),
                           !.i = @ + 1,
                           !.pc = IF frame.i = Len(CtxClass(frame.cls).fields)
                                  THEN "finally" ELSE "fields"]

\* the caller takes up again when the call it made has ended with exc and,
\* when it returned, the instance attributes attrs
Resumed(frame, exc, attrs) ==
    IF frame.pc = "fields"
    THEN IF exc # "none" THEN [frame EXCEPT !.exc = exc, !.pc = "finally"]
         ELSE FieldGiven(frame, Get(attrs, "x"))
    ELSE [frame EXCEPT !.exc = IF exc = "ValueError" THEN "ValidationError" ELSE exc,
                       !.pc = "cleanup"]

\* from_attributes' finally: the slot is deleted, the call ends with the
\* exception of the constructor or with the KeyError of the deletion, and
\* its caller, when there is one, goes on
Left(c, del) ==
    LET frame == Top(c)
        exc == IF del.exc # "none" THEN del.exc ELSE frame.exc
        rest == SubSeq(c.stack, 1, Len(c.stack) - 1)
    IN  [cache |-> del.cache,
         stack |-> IF rest = <<>> THEN rest
                   ELSE [rest EXCEPT ![Len(rest)] = Resumed(@, exc, frame.attrs)],
         last |-> [op |-> "from_attributes", cls |-> frame.cls, obj |-> frame.obj,
                   reset |-> frame.reset, exc |-> exc, depth |-> Len(c.stack)]]

----------------------------------------------------------------------------
(* URL types (src/cwtch/types.py) *)

TUrl == [tag |-> "Url"]
TSecretUrl == [tag |-> "SecretUrl"]

\* the model class UrlConstraints: schemes and ports, keyword-only, None by
\* default, declared with the default extra policy
UrlConstraintsCls ==
    Cls("UrlConstraints",
        <<[Fld("schemes", TAny) EXCEPT !.default = NoneV, !.kw_only = TRUE],
          [Fld("ports", TAny) EXCEPT !.default = NoneV, !.kw_only = TRUE]>>,
        "ignore", "absent")

\* UrlConstraints(**kwds): the constraint object its generated __init__ builds
UrlConstraints(kwds) ==
    LET built == Construct(UrlConstraintsCls, kwds, [log |-> <<>>, nid |-> 1, d |-> 0])
    IN  [c |-> "UrlConstraints",
         schemes |-> Get(built.val.attrs, "schemes"),
         ports |-> Get(built.val.attrs, "ports")]

SchemeList(names) == ListV([i \in 1..Len(names) |-> StrV(names[i])])

\* the aliases as types.py declares them, with the keyword it writes
HttpUrl == Annotated(TUrl, <<UrlConstraints(<<KV("shemes", SchemeList(<<"http", "https">>))>>)>>)
SecretHttpUrl ==
    Annotated(TSecretUrl, <<UrlConstraints(<<KV("shemes", SchemeList(<<"http", "https">>))>>)>>)
WebsocketpUrl == Annotated(TUrl, <<UrlConstraints(<<KV("shemes", SchemeList(<<"ws", "wss">>))>>)>>)
FileUrl == Annotated(TUrl, <<UrlConstraints(<<KV("shemes", SchemeList(<<"file">>))>>)>>)
FtpUrl == Annotated(TUrl, <<UrlConstraints(<<KV("shemes", SchemeList(<<"ftp">>))>>)>>)

UrlAlias(name) ==
    CASE name = "HttpUrl" -> HttpUrl
      [] name = "SecretHttpUrl" -> SecretHttpUrl
      [] name = "WebsocketpUrl" -> WebsocketpUrl
      [] name = "FileUrl" -> FileUrl
      [] name = "FtpUrl" -> FtpUrl

----------------------------------------------------------------------------
(* The inputs explored *)

RECURSIVE SeqsUpTo(_, _)
\* every sequence over S of length at most n
SeqsUpTo(S, n) ==
    IF n = 0 THEN {<<>>}
    ELSE LET shorter == SeqsUpTo(S, n - 1)
         IN  shorter \cup {Append(xs, x) : xs \in shorter, x \in S}

ScalarInputs ==
    {IntV(0), IntV(1), IntV(2), StrV("1"), StrV("1.1"), StrV("a"), StrV("A"), FloatV(11)}

IntOrFloatGe1 == Annotated(Union(<<TInt, TFloat>>), <<Ge(1)>>)
StrictInt == Annotated(TInt, <<Strict(<<"int">>)>>)
LowerStr == Annotated(TStr, <<ToLower("after")>>)

ScalarTypes ==
    {TInt, TFloat, TStr, TBool,
     Union(<<TInt, TFloat>>), Union(<<TFloat, TStr>>), Union(<<TStr, TInt>>),
     Union(<<TInt, TStr>>), Union(<<TStr, TFloat>>), Union(<<TInt, TAny>>),
     Union(<<TInt, TBool>>),
     Union(<<IntOrFloatGe1, TStr>>), Union(<<IntOrFloatGe1, TBool>>),
     Annotated(TInt, <<Ge(1)>>),
     Annotated(Annotated(TInt, <<Ge(2)>>), <<Ge(1)>>),
     Annotated(Annotated(TInt, <<Ge(1)>>), <<Ge(2)>>),
     StrictInt, LowerStr,
     Annotated(TInt, <<Strict(<<"int">>), Ge(1)>>),
     Annotated(TInt, <<JsonLoads>>),
     Annotated(TFloat, <<JsonLoads, Strict(<<"float">>)>>),
     Annotated(TFloat, <<Strict(<<"float">>), JsonLoads>>),
     Annotated(TStr, <<ToUpper("before"), ToLower("after")>>),
     Annotated(TStr, <<ToLower("before"), ToUpper("before")>>)}

\* inputs of the primitive validators: bools, None, integers around 0 and 1,
\* and the string tokens of bool in their cases
PrimTypes == {TBool, TStr, TInt, TFloat}
PrimInputs ==
    {BoolV(TRUE), BoolV(FALSE), NoneV, IntV(-2), IntV(-1), IntV(0), IntV(1), IntV(2)}
    \cup {StrV(c[1]) : c \in Cased} \cup {StrV("0"), StrV("1"), StrV("2"), StrV("-1")}

ElemInputs == {IntV(0), StrV("1"), StrV("a")}
SeqInputs == {ListV(xs) : xs \in SeqsUpTo(ElemInputs, MaxLen)} \cup {IntV(0)}

ContainerTypes ==
    {ListOf(TInt), SetOf(TInt), TupleVar(TInt), TupleFix(<<TInt, TStr>>), TupleFix(<<TInt>>),
     ListOf(Annotated(TInt, <<Ge(1)>>))}

\* URL forms: with and without scheme, user name, password, port and path
UrlForms ==
    [scheme : {"http", ""}, username : {"", "user", "u2"}, password : {"", "pass", "p2"},
     hostname : {"localhost"}, port : {"", "80"}, path : {"", "/p"}]
Secrets == {"secret", "other", ""}

\* view declarations: a body that adds k, one that redeclares s, an empty one
ViewBodies ==
    {<<>>, <<Fld("k", TFloat)>>, <<[Fld("s", TInt) EXCEPT !.default = IntV(0)]>>}
NameSets == {Unset, Names({"i"}), Names({"s"}), Names({"i", "k"}), Names({"k"})}

\* calls of foo: s positional, i positional, by keyword or left out
CallInputs ==
    {[args |-> <<s>>, kwds |-> <<>>] : s \in {StrV("a"), IntV(0)}}
    \cup {[args |-> <<StrV("a"), i>>, kwds |-> <<>>] : i \in {IntV(1), StrV("1"), StrV("a")}}
    \cup {[args |-> <<StrV("a")>>, kwds |-> <<KV("i", i)>>] : i \in {IntV(1), StrV("1"), StrV("a")}}

\* generic models G and H, and the arguments they are subscribed with
Generics == {"G", "H"}
TypeArgs == {TInt, TStr, TFloat, Union(<<TInt, TStr>>)}

\* URL texts, as urlparse splits them
UrlTexts ==
    [k : {"urltext"}, scheme : {"http", "https", "ws", "ftp", "file", ""},
     username : {""}, password : {""}, hostname : {"localhost", "-x"},
     port : {"", "80"}, path : {"", "/p"}]
UrlAliases == {"HttpUrl", "SecretHttpUrl", "WebsocketpUrl", "FileUrl", "FtpUrl"}

\* the bodies of the subclasses declared, the arguments generic models are
\* instantiated with and the values instances are built from
SubclassBodies ==
    {<<Ann("i", TFloat), Ann("s", TStr)>>, <<Ann("s", TStr)>>, <<Ann("x", TStr)>>}
InstanceArgs == {TInt, TStr, TFloat}
InitValues == {IntV(1), StrV("a")}

\* the threads that subscribe generic models at the same time, and what
\* they subscribe
Threads == {1, 2, 3}
SharedAliases == {Alias("G", TInt), Alias("G", TStr)}

\* from_attributes: the classes, the objects and the reset_circular_refs
\* values it is called with
CtxClasses == {"Inner", "Outer", "Hooked"}
Objects == {"good", "bad"}
Resets == {"None", "True", "False"}

\* environments: at most two variables, empty, plain and bracketed texts
EnvEntries ==
    {KV("A_R", "1"), KV("B_R", "2"), KV("A_R", ""), KV("B_I", ""), KV("A_I", "2"),
     KV("A_R", "[1]"), KV("B_R", "[x]"), KV("A_Z", "1")}
Envs == {e \in SeqsUpTo(EnvEntries, 2) :
             \A a, b \in 1..Len(e) : a # b => e[a].key # e[b].key}
\* keyword arguments of ME
EnvKwInputs ==
    {kw \in SeqsUpTo({KV("r", StrV("1")), KV("r", StrV("a")), KV("i", StrV("1"))}, MaxKw) :
         \A a, b \in 1..Len(kw) : a # b => kw[a].key # kw[b].key}

ClassNames == {Classes[i].name : i \in 1..Len(Classes)}

\* keys tried for a class: its parameters, its aliases and undeclared ones
InputKeys(m) ==
    {InitFields(m)[i].name : i \in 1..Len(InitFields(m))}
    \cup {m.fields[i].name : i \in {j \in 1..Len(m.fields) : ~m.fields[j].init}}
    \cup {m.fields[i].init_alias : i \in {j \in 1..Len(m.fields) : m.fields[j].init_alias # ""}}
    \cup (IF m.extra = "forbid" THEN {"z", "y"} ELSE {"z"})

KeyVals(key) ==
    CASE key = "x" -> {IntV(0), StrV("1")}
      [] key = "inner" -> {DictV(<<KV("x", IntV(0))>>), DictV(<<KV("x", IntV(1))>>)}
      [] key = "c" -> {ListV(<<>>), StrV("a")}
      [] key = "j" -> {StrV("\"1\""), IntV(1)}
      [] OTHER -> {StrV("1"), StrV("a")}

DistinctKeys(kw) == \A i, j \in 1..Len(kw) : i # j => kw[i].key # kw[j].key

KwInputs(m) == {kw \in SeqsUpTo(UNION {{KV(key, v) : v \in KeyVals(key)} : key \in InputKeys(m)}, MaxKw) :
                    DistinctKeys(kw)}

----------------------------------------------------------------------------
(* State: the last call, its outcome, and the next free object identity *)

NoCall == [op |-> "none"]
Start(nid) == [log |-> <<>>, nid |-> nid, d |-> 0]
\* a call made with env in the environment source
StartEnv(nid, env) == [log |-> <<>>, nid |-> nid, d |-> 0, env |-> env]

\* no generic model has been subscribed: _instantiate_generic's cache is
\* empty and no class has been created from an alias
NoGenerics == [cache |-> <<>>, objs |-> <<>>, returned |-> {}]

Init ==
    /\ call = NoCall
    /\ out = Ok(MISSING, Start(1))
    /\ next_id = 1
    /\ generic = NoGenerics
    /\ ctx = NoContext
    /\ threads = [t \in Threads |-> Waiting]
    /\ registry = DeclaredAtStart

Idle == call = NoCall

Finish(c, r) ==
    /\ r.st.nid <= MaxObjs + 1
    /\ call' = c
    /\ out' = r
    /\ next_id' = r.st.nid
    /\ UNCHANGED <<generic, ctx, threads, registry>>

\* validate_value(v, T) on a scalar, union or Annotated type
ValidateScalar ==
    /\ Idle
    /\ \E T \in ScalarTypes, v \in ScalarInputs :
        Finish([op |-> "validate_value", value |-> v, type |-> T],
               validate_value(v, T, Start(next_id)))

\* validate_value(v, T) on a primitive type
ValidatePrimitive ==
    /\ Idle
    /\ \E T \in PrimTypes, v \in PrimInputs :
        Finish([op |-> "validate_value", value |-> v, type |-> T],
               validate_value(v, T, Start(next_id)))

\* validate_value(v, T) on a container type
ValidateContainer ==
    /\ Idle
    /\ \E T \in ContainerTypes, v \in SeqInputs :
        Finish([op |-> "validate_value", value |-> v, type |-> T],
               validate_value(v, T, Start(next_id)))

\* validate_value(d, M) on a model class, from a dict or a non-mapping
ValidateModel ==
    /\ Idle
    /\ \E name \in ClassNames :
        \E v \in {DictV(kw) : kw \in KwInputs(ClassOf(name))} \cup {IntV(0)} :
            Finish([op |-> "validate_value", value |-> v, type |-> Model(name)],
                   validate_value(v, Model(name), Start(next_id)))

\* validate_value(obj, M) on the instance the previous call returned
ValidateInstance ==
    /\ call.op \in {"validate_value", "construct"}
    /\ out.exc = "none"
    /\ out.val.k = "inst"
    /\ \E name \in ClassNames :
           Finish([op |-> "validate_value", value |-> out.val, type |-> Model(name)],
                  validate_value(out.val, Model(name), Start(next_id)))

\* validate_value(validate_value(v, T), T): the value the previous call
\* returned is validated against the same type
Revalidate ==
    /\ call.op = "validate_value"
    /\ out.exc = "none"
    /\ out.val.k # "inst"
    /\ Finish([op |-> "validate_value", value |-> out.val, type |-> call.type],
              validate_value(out.val, call.type, Start(next_id)))

\* asdict(m) on the instance the previous call returned
AsDict ==
    /\ call.op \in {"validate_value", "construct"}
    /\ out.exc = "none"
    /\ out.val.k = "inst"
    /\ Finish([op |-> "asdict", value |-> out.val, type |-> Model(out.val.cls)],
              Ok(asdict(out.val), Start(next_id)))

\* validate_value(asdict(m), type(m)): the dict goes back through the class
\* of the instance m it was taken from
FromDict ==
    /\ call.op = "asdict"
    /\ Finish([op |-> "validate_value", value |-> out.val, type |-> call.type,
               source |-> call.value],
              validate_value(out.val, call.type, Start(next_id)))

\* @view(...) class V(M): a view declared on the model M
DeclareView ==
    /\ Idle
    /\ \E body \in ViewBodies, include \in NameSets, exclude \in NameSets :
        Finish([op |-> "view", parent |-> M, body |-> body,
                include |-> include, exclude |-> exclude],
               view(M, body, include, exclude, Start(next_id)))

\* @view(...) class W(V): a view declared on the view the previous
\* declaration returned
DeclareSubview ==
    /\ call.op = "view"
    /\ out.exc = "none"
    /\ \E body \in ViewBodies, include \in NameSets, exclude \in NameSets :
        Finish([op |-> "view", parent |-> out.val, body |-> body,
                include |-> include, exclude |-> exclude],
               view(out.val, body, include, exclude, Start(next_id)))

\* Field(default=d, default_factory=df) or field(d, default_factory=df)
CreateField ==
    /\ Idle
    /\ \E d \in {MISSING, IntV(1)}, df \in {MISSING, Factory(IntV(2))} :
        Finish([op |-> "Field", default |-> d, default_factory |-> df],
               Ok(Field(d, df), Start(next_id)))

\* two SecretStr that differ in the secret are rendered
RenderSecretStr ==
    /\ Idle
    /\ \E a \in Secrets, b \in Secrets :
        Finish([op |-> "render", a |-> SecretStr(a), b |-> SecretStr(b)],
               Ok([k |-> "rendered", a |-> Render(SecretStr(a)), b |-> Render(SecretStr(b))],
                  Start(next_id)))

\* two SecretUrl that differ only in user name and password are rendered
RenderSecretUrl ==
    /\ Idle
    /\ \E u \in UrlForms, v \in UrlForms :
        /\ [u EXCEPT !.username = "", !.password = ""] = [v EXCEPT !.username = "", !.password = ""]
        /\ Finish([op |-> "render", a |-> SecretUrl(u), b |-> SecretUrl(v)],
                  Ok([k |-> "rendered", a |-> Render(SecretUrl(u)), b |-> Render(SecretUrl(v))],
                     Start(next_id)))

\* validate_args(foo, args, kwds)
ValidateArgs ==
    /\ Idle
    /\ \E c \in CallInputs :
        Finish([op |-> "validate_args", fn |-> foo, args |-> c.args, kwds |-> c.kwds],
               validate_args(foo, c.args, c.kwds, Start(next_id)))

\* validate_call(foo)(*args, **kwds)
ValidateCall ==
    /\ Idle
    /\ \E c \in CallInputs :
        Finish([op |-> "validate_call", fn |-> foo, args |-> c.args, kwds |-> c.kwds],
               validate_call(foo, c.args, c.kwds, Start(next_id)))

\* M(**kw): the generated __init__ called directly
DirectConstruct ==
    /\ Idle
    /\ \E name \in ClassNames :
        \E kw \in KwInputs(ClassOf(name)) :
            Finish([op |-> "construct", value |-> DictV(kw), type |-> Model(name)],
                   Construct(ClassOf(name), kw, Start(next_id)))

\* validate_value(u, HttpUrl) and the other URL aliases
ValidateUrl ==
    /\ Idle
    /\ \E u \in UrlTexts, name \in UrlAliases :
        Finish([op |-> "validate_url", url |-> u, alias |-> name],
               validate_value(u, UrlAlias(name), Start(next_id)))

\* ME(**kw) with env in the environment source
ConstructEnv ==
    /\ Idle
    /\ \E env \in Envs, kw \in EnvKwInputs :
        Finish([op |-> "construct_env", cls |-> ME, kwargs |-> kw, env |-> env],
               Construct(ME, kw, StartEnv(next_id, env)))

\* the caller takes the outcome; the next call starts from a clean trace
Return ==
    /\ ~Idle
    /\ call' = NoCall
    /\ out' = Ok(MISSING, Start(next_id))
    /\ UNCHANGED <<next_id, generic, ctx, threads, registry>>

Next ==
    \/ ValidateScalar
    \/ ValidatePrimitive
    \/ ValidateContainer
    \/ ValidateModel
    \/ ValidateInstance
    \/ Revalidate
    \/ AsDict
    \/ FromDict
    \/ ValidateArgs
    \/ ValidateCall
    \/ DeclareView
    \/ DeclareSubview
    \/ CreateField
    \/ RenderSecretStr
    \/ RenderSecretUrl
    \/ DirectConstruct
    \/ ConstructEnv
    \/ ValidateUrl
    \/ Return

Spec == Init /\ [][Next]_vars

\* M[X] for a generic model M: typing builds the alias, the alias itself never
\* carries __cwtch_instantiated__, so _instantiate_generic is asked for the
\* class; what the expression evaluates to is recorded with its arguments
ClassGetItem ==
    /\ Idle
    /\ \E origin \in Generics, X \in TypeArgs :
        LET r == class_getitem(origin, X, generic)
        IN  /\ call' = [op |-> "class_getitem", origin |-> origin, arg |-> X]
            /\ out' = IF r.exc = "none" THEN Ok(r.val, Start(next_id))
                      ELSE Raise(r.exc, Leaf(r.exc, "object has no attribute '__name__'"),
                                 Start(next_id))
            /\ generic' = IF r.exc # "none" THEN r.g
                          ELSE [r.g EXCEPT !.returned =
                                    @ \cup {[origin |-> origin, arg |-> X, id |-> r.val.id]}]
            /\ UNCHANGED <<next_id, ctx, threads, registry>>

NextGeneric ==
    \/ ClassGetItem
    \/ Return

SpecGeneric == Init /\ [][NextGeneric]_vars

\* "@dataclass class B(base): body" for a model base that is not generic
DeclareSubclass ==
    /\ Len(registry.classes) < MaxClasses
    /\ \E base \in 1..Len(registry.classes), body \in SubclassBodies :
        /\ ~registry.classes[base].generic
        /\ registry.classes[base].origin = 0
        /\ registry' = Declare(registry, "B", base, body)
    /\ UNCHANGED <<call, out, next_id, generic, ctx, threads>>

\* M[X] evaluated for the first time
InstantiateGeneric ==
    /\ Len(registry.classes) < MaxClasses
    /\ \E g \in 1..Len(registry.classes), X \in InstanceArgs :
        /\ registry.classes[g].generic
        /\ \A c \in 1..Len(registry.classes) :
               ~(registry.classes[c].origin = g /\ registry.classes[c].arg = X)
        /\ registry' = InstantiatedClass(registry, g, X)
    /\ UNCHANGED <<call, out, next_id, generic, ctx, threads>>

\* cls(v, ...) for a class whose fields have no type variable
ConstructInstance ==
    /\ registry.props < MaxProps
    /\ \E cid \in 1..Len(registry.classes), v \in InitValues :
        /\ ~registry.classes[cid].generic
        /\ registry' = InitRun(registry, cid, v, 1)
    /\ UNCHANGED <<call, out, next_id, generic, ctx, threads>>

NextRegistry ==
    \/ DeclareSubclass
    \/ InstantiateGeneric
    \/ ConstructInstance

SpecRegistry == Init /\ [][NextRegistry]_vars

\* a thread evaluates M[X]: a hit returns the stored class, a miss enters
\* _instantiate_generic
Subscribe(t) ==
    /\ threads[t] = Waiting
    /\ \E tp \in SharedAliases :
        IF CacheHit(tp, generic)
        THEN /\ generic' = Returned(Instantiated(instantiate_generic(tp, generic)), tp)
             /\ UNCHANGED threads
        ELSE /\ threads' = [threads EXCEPT ![t] = Missed(tp)]
             /\ UNCHANGED generic
    /\ UNCHANGED <<call, out, next_id, ctx, registry>>

\* the _instantiate_generic call of a thread returns: its class is stored in
\* the cache, marked by __class_getitem__ and returned
BuildDone(t) ==
    /\ threads[t].pc = "missed"
    /\ generic' = Returned(Instantiated(StoreClass(threads[t].tp, generic)), threads[t].tp)
    /\ threads' = [threads EXCEPT ![t] = Waiting]
    /\ UNCHANGED <<call, out, next_id, ctx, registry>>

NextThreads == \E t \in Threads : Subscribe(t) \/ BuildDone(t)

SpecThreads == Init /\ [][NextThreads]_vars

\* from_attributes(cls, obj, reset_circular_refs=reset) called from outside
\* any construction
FromAttributes ==
    /\ ctx.stack = <<>>
    /\ \E cls \in CtxClasses, obj \in Objects, reset \in Resets :
           ctx' = [Enter(ctx, cls, obj, reset) EXCEPT !.last = NoResult]
    /\ UNCHANGED <<call, out, next_id, generic, threads, registry>>

\* the generated __init__ is entered: the instance is stored under the key
InitEnter ==
    /\ ctx.stack # <<>>
    /\ Top(ctx).pc = "init"
    /\ ctx' = SetTop([ctx EXCEPT !.cache = CacheStore(@, Key(Top(ctx)))],
                     [Top(ctx) EXCEPT !.pc = "fields"])
    /\ UNCHANGED <<call, out, next_id, generic, threads, registry>>

\* the next field of the running construction is resolved and validated; a
\* default_factory that calls from_attributes starts that call
FieldStep ==
    /\ ctx.stack # <<>>
    /\ Top(ctx).pc = "fields"
    /\ LET frame == Top(ctx)
           f == CtxClass(Top(ctx).cls).fields[Top(ctx).i]
           a == Arg(Kwds(Top(ctx).cls, Top(ctx).obj), f)
       IN  IF a # MISSING THEN ctx' = SetTop(ctx, FieldGiven(frame, a))
           ELSE IF f.default_factory = Nested
           THEN \E obj \in Objects, reset \in Resets : ctx' = Enter(ctx, "Inner", obj, reset)
           ELSE ctx' = SetTop(ctx, [frame EXCEPT !.exc = "TypeError", !.pc = "finally"])
    /\ UNCHANGED <<call, out, next_id, generic, threads, registry>>

\* the body of __init__ is left, by its end or by an exception
InitFinally ==
    /\ ctx.stack # <<>>
    /\ Top(ctx).pc = "finally"
    /\ ctx' = SetTop([ctx EXCEPT !.cache = InitExit(@, Key(Top(ctx)), Top(ctx).exc)],
                     [Top(ctx) EXCEPT !.pc = IF Top(ctx).exc = "none" THEN "post_init"
                                             ELSE "cleanup"])
    /\ UNCHANGED <<call, out, next_id, generic, threads, registry>>

\* __post_init__, when the class has one, calls from_attributes
PostInitStep ==
    /\ ctx.stack # <<>>
    /\ Top(ctx).pc = "post_init"
    /\ IF CtxClass(Top(ctx).cls).hook = "absent"
       THEN ctx' = SetTop(ctx, [Top(ctx) EXCEPT !.pc = "cleanup"])
       ELSE \E obj \in Objects, reset \in Resets :
                ctx' = Enter(SetTop(ctx, [Top(ctx) EXCEPT !.hooked = TRUE]), "Inner", obj, reset)
    /\ UNCHANGED <<call, out, next_id, generic, threads, registry>>

\* from_attributes returns or raises
Cleanup ==
    /\ ctx.stack # <<>>
    /\ Top(ctx).pc = "cleanup"
    /\ ctx' = Left(ctx, SlotDel(ctx.cache))
    /\ UNCHANGED <<call, out, next_id, generic, threads, registry>>

NextContext ==
    \/ FromAttributes
    \/ InitEnter
    \/ FieldStep
    \/ InitFinally
    \/ PostInitStep
    \/ Cleanup

SpecContext == Init /\ [][NextContext]_vars

----------------------------------------------------------------------------
(* Properties *)

IsValidate == call.op = "validate_value"
\* the events of the outermost validate_value frame, of one kind
TopEvents(kind) == SelectSeq(out.st.log, LAMBDA x : x.d = 1 /\ x.e.ev = kind)
Accepts(v, T) == validate_value(v, T, Start(1)).exc = "none"
ResultOf(v, T) == validate_value(v, T, Start(1)).val
ErrorOf(v, T) == validate_value(v, T, Start(1)).err

UnionCall == IsValidate /\ call.type.tag = "union"
FirstAccepting(v, ms) ==
    CHOOSE i \in 1..Len(ms) : Accepts(v, ms[i]) /\ \A j \in 1..(i - 1) : ~Accepts(v, ms[j])
SomeAccepts(v, ms) == \E i \in 1..Len(ms) : Accepts(v, ms[i])
\* the input already has the type of a plain member, or Any is a member
AlreadyOfMember(v, ms) ==
    \E i \in 1..Len(ms) :
        ms[i].tag = "any" \/ (ms[i].tag \in {"int", "float", "str", "bool"} /\ v.k = ms[i].tag)
MembersTried == [i \in 1..Len(TopEvents("member")) |-> TopEvents("member")[i].e.i]

\* C1 as stated: a union always returns what its first accepting member, in
\* declaration order, makes of the input.  (Refuted: '1' against int | Any
\* and against int | str stays the string '1'.)
C1_DeclarationOrderOnly ==
    (UnionCall /\ SomeAccepts(call.value, call.type.members)) =>
        /\ out.exc = "none"
        /\ out.val = ResultOf(call.value,
                              call.type.members[FirstAccepting(call.value, call.type.members)])

\* C1 amended: an input that already has the type of a plain member (or any
\* input when Any is a member) is returned unchanged and no member is
\* tried; otherwise the members are tried in declaration order, the result
\* is that of the first accepting member and no later member is tried.
C1_UnionFirstSuccess ==
    UnionCall =>
        LET v == call.value
            ms == call.type.members
        IN  IF AlreadyOfMember(v, ms)
            THEN out.exc = "none" /\ out.val = v /\ MembersTried = <<>>
            ELSE IF SomeAccepts(v, ms)
            THEN LET j == FirstAccepting(v, ms)
                 IN  /\ out.exc = "none"
                     /\ out.val = ResultOf(v, ms[j])
                     /\ MembersTried = [i \in 1..j |-> i]
            ELSE out.exc = "ValidationError" /\ MembersTried = [i \in 1..Len(ms) |-> i]

\* C1 witness: float | str given the int 1 returns 1.0 and never tries str
C1_Witness ==
    /\ UnionCall
    /\ call.value = IntV(1)
    /\ call.type = Union(<<TFloat, TStr>>)
    /\ out.exc = "none"
    /\ out.val = FloatV(10)
    /\ MembersTried = <<1>>

RECURSIVE OwnedBy(_, _)
\* the error e is the failure of descriptor T (an Annotated type hands on
\* the failure of its inner type unwrapped)
OwnedBy(e, T) == e.tp = T \/ (T.tag = "annotated" /\ OwnedBy(e, T.inner))

RECURSIVE UnionErrorShape(_)
\* one child per member, in member order, also inside nested unions
UnionErrorShape(e) ==
    /\ e.exc = "ValidationError"
    /\ e.tp.tag = "union" =>
           /\ Len(e.errors) = Len(e.tp.members)
           /\ \A i \in 1..Len(e.errors) :
                  OwnedBy(e.errors[i], e.tp.members[i]) /\ UnionErrorShape(e.errors[i])
    /\ e.tp.tag \in Prims =>
           Len(e.errors) = 1 /\ e.errors[1].exc \in {"ValueError", "TypeError"}

\* C2: when every member rejects, the union raises one ValidationError whose
\* children are the members' failures, one per member in declaration order,
\* and the same holds inside a union nested in an Annotated member.
C2_UnionAllFail ==
    UnionCall =>
        LET v == call.value
            ms == call.type.members
        IN  /\ (~AlreadyOfMember(v, ms) /\ ~SomeAccepts(v, ms)) => out.exc = "ValidationError"
            /\ out.exc # "none" =>
                   /\ out.exc = "ValidationError"
                   /\ out.err.tp = call.type
                   /\ out.err.path = <<>>
                   /\ UnionErrorShape(out.err)
                   /\ \A i \in 1..Len(ms) : out.err.errors[i] = ErrorOf(v, ms[i])
            /\ (v = StrV("a") /\ call.type = Union(<<TInt, TFloat>>)) =>
                   /\ out.err.errors[1].errors = <<Leaf("ValueError", "invalid literal for int() with base 10")>>
                   /\ out.err.errors[2].errors = <<Leaf("ValueError", "could not convert string to float")>>

\* C2 witness: 'a' against Annotated[int | float, Ge(1)] | bool
C2_Witness ==
    /\ UnionCall
    /\ call.value = StrV("a")
    /\ call.type = Union(<<IntOrFloatGe1, TBool>>)
    /\ out.exc = "ValidationError"
    /\ Len(out.err.errors) = 2
    /\ out.err.errors[1].tp = Union(<<TInt, TFloat>>)
    /\ Len(out.err.errors[1].errors) = 2

ContainerCall ==
    /\ IsValidate
    /\ call.type.tag \in {"list", "set", "tuple_var", "tuple"}
    /\ call.value.k = "list"
    /\ call.type.tag = "tuple" => Len(call.value.xs) = Len(call.type.elems)
BadElems(v, T) == {i \in 1..Len(v.xs) : ~Accepts(v.xs[i], ElemType(T, i))}
ElemsValidated == [i \in 1..Len(TopEvents("elem")) |-> TopEvents("elem")[i].e.i]
Min(S) == CHOOSE x \in S : \A y \in S : x <= y

\* C3: a container validates its elements in source order and stops at the
\* first failing one: the error has that element's index as its path and
\* the element's error as its only child, no value is returned and no later
\* element is validated or reported.
C3_ContainerFailFast ==
    ContainerCall =>
        LET v == call.value
            T == call.type
        IN  IF BadElems(v, T) = {}
            THEN /\ out.exc = "none"
                 /\ ElemsValidated = [i \in 1..Len(v.xs) |-> i - 1]
                 /\ T.tag # "set" =>
                        out.val.xs = [i \in 1..Len(v.xs) |-> ResultOf(v.xs[i], ElemType(T, i))]
            ELSE LET j == Min(BadElems(v, T))
                 IN  /\ out.exc = "ValidationError"
                     /\ "val" \notin DOMAIN out
                     /\ out.err = VError(T, <<ErrorOf(v.xs[j], ElemType(T, j))>>, <<PIdx(j - 1)>>)
                     /\ ElemsValidated = [i \in 1..j |-> i - 1]

\* C3 witness: ['a', 0, 'a'] against list[int] reports index 0 only
C3_Witness ==
    /\ ContainerCall
    /\ call.type = ListOf(TInt)
    /\ call.value = ListV(<<StrV("a"), IntV(0), StrV("a")>>)
    /\ out.exc = "ValidationError"
    /\ out.err.path = <<PIdx(0)>>
    /\ Len(out.err.errors) = 1
    /\ ElemsValidated = <<0>>

AnnotatedCall == IsValidate /\ call.type.tag = "annotated"
\* the hook and base steps of the outermost Annotated frame, as they ran
Steps ==
    SelectSeq(out.st.log, LAMBDA x : x.d = 1 /\ x.e.ev \in {"before", "base", "after"})
StepKind(T, k) ==
    IF k <= Len(T.meta) THEN "before" ELSE IF k = Len(T.meta) + 1 THEN "base" ELSE "after"
StepHook(T, k) == IF k <= Len(T.meta) THEN k ELSE k - Len(T.meta) - 1
\* what step k made of the argument it was given
StepOut(T, k, arg) ==
    CASE StepKind(T, k) = "before" -> Before(T.meta[StepHook(T, k)], arg)
      [] StepKind(T, k) = "after" -> After(T.meta[StepHook(T, k)], arg)
      [] OTHER -> IF Accepts(arg, T.inner) THEN Ret(ResultOf(arg, T.inner))
                  ELSE [exc |-> "ValidationError", err |-> ErrorOf(arg, T.inner)]
GeTwoThenOne == Annotated(Annotated(TInt, <<Ge(2)>>), <<Ge(1)>>)
GeOneThenTwo == Annotated(Annotated(TInt, <<Ge(1)>>), <<Ge(2)>>)

\* C4: an Annotated type (a nested one flattened, inner constraints first)
\* runs its before hooks in declaration order, then the base coercion, then
\* its after hooks in declaration order, each step on the previous step's
\* output; a rejection by an after hook is reported from the first after
\* hook in declaration order that rejects.
C4_ConstraintOrder ==
    AnnotatedCall =>
        LET T == call.type
            n == Len(call.type.meta)
            H == Steps
        IN  /\ Len(H) \in 1..(2 * n + 1)
            /\ \A k \in 1..Len(H) :
                   /\ H[k].e.ev = StepKind(T, k)
                   /\ StepKind(T, k) # "base" => H[k].e.i = StepHook(T, k)
            /\ H[1].e.arg = call.value
            /\ \A k \in 1..(Len(H) - 1) :
                   /\ StepOut(T, k, H[k].e.arg).exc = "none"
                   /\ H[k + 1].e.arg = StepOut(T, k, H[k].e.arg).val
            /\ out.exc = "none" =>
                   Len(H) = 2 * n + 1 /\ out.val = StepOut(T, Len(H), H[Len(H)].e.arg).val
            /\ out.exc # "none" =>
                   /\ StepOut(T, Len(H), H[Len(H)].e.arg).exc # "none"
                   /\ Len(H) > n + 1 =>
                          out.err = VError(T, <<StepOut(T, Len(H), H[Len(H)].e.arg).err>>, <<>>)
            /\ GeTwoThenOne.meta = <<Ge(2), Ge(1)>>
            /\ (T = GeTwoThenOne /\ call.value \in {IntV(0), IntV(1)}) =>
                   out.err.errors = <<LeafArg("ValueError", "value should be >=", 2)>>
            /\ (T = GeOneThenTwo /\ call.value = IntV(0)) =>
                   out.err.errors = <<LeafArg("ValueError", "value should be >=", 1)>>
            /\ (T = GeTwoThenOne /\ call.value = IntV(2)) => (out.exc = "none" /\ out.val = IntV(2))

\* C4 witness: Annotated[Annotated[int, Ge(2)], Ge(1)] given 1 is rejected
\* by Ge(2), after both before hooks and the base coercion ran
C4_Witness ==
    /\ AnnotatedCall
    /\ call.type = GeTwoThenOne
    /\ call.value = IntV(1)
    /\ out.exc = "ValidationError"
    /\ out.err.errors[1].bound = 2
    /\ Len(Steps) = 4

\* C5 as stated: when a before hook raises, the failure is swallowed and
\* validation goes on with the value the hook was given.  (Refuted:
\* Strict.before on '1' makes validate_value('1', StrictInt) fail.)
C5_BeforeErrorsSwallowed ==
    AnnotatedCall =>
        \A k \in 1..Len(Steps) :
            (/\ Steps[k].e.ev = "before"
             /\ Before(call.type.meta[k], Steps[k].e.arg).exc # "none") =>
                (Len(Steps) > k /\ Steps[k + 1].e.arg = Steps[k].e.arg)

\* C5 amended: an exception raised by a before hook ends the call: no later
\* hook and no base coercion runs, and validate_value raises a
\* ValidationError for the Annotated type whose cause is the hook's
\* exception (Strict.before on a value of another exact type makes
\* validate_value fail); only a hook that handles its own failure, as
\* JsonLoads.before does, leaves the value unchanged and lets validation go on.
C5_BeforeErrorsPropagate ==
    AnnotatedCall =>
        /\ \A k \in 1..Len(Steps) :
               (/\ Steps[k].e.ev = "before"
                /\ Before(call.type.meta[k], Steps[k].e.arg).exc # "none") =>
                   /\ k = Len(Steps)
                   /\ out.exc = "ValidationError"
                   /\ out.err = VError(call.type,
                                       <<Before(call.type.meta[k], Steps[k].e.arg).err>>, <<>>)
        /\ \A k \in 1..Len(Steps) :
               (Steps[k].e.ev = "before" /\ call.type.meta[k] = JsonLoads) =>
                   /\ Len(Steps) > k
                   /\ (Steps[k].e.arg.k # "str" \/ Steps[k].e.arg.s \in {"a", "A"}) =>
                          Steps[k + 1].e.arg = Steps[k].e.arg
        /\ (call.type = StrictInt /\ call.value.k # "int") =>
               /\ out.exc = "ValidationError"
               /\ out.err.errors = <<Leaf("ValueError", "invalid value for")>>
               /\ Len(Steps) = 1
        /\ (call.type = StrictInt /\ call.value.k = "int") => (out.exc = "none" /\ out.val = call.value)

\* C5 witness: validate_value('1', StrictInt) fails in Strict.before
C5_Witness ==
    /\ AnnotatedCall
    /\ call.type = StrictInt
    /\ call.value = StrV("1")
    /\ out.exc = "ValidationError"
    /\ out.err.tp = StrictInt
    /\ TopEvents("base") = <<>>

InstanceCall ==
    /\ IsValidate
    /\ call.type.tag = "model"
    /\ call.value.k = "inst"
    /\ call.value.cls = call.type.name

ModelCall ==
    /\ call.op \in {"validate_value", "construct"}
    /\ call.type.tag = "model"
    /\ call.value.k = "dict"
CallClass == ClassOf(call.type.name)
CallDepth == IF call.op = "construct" THEN 0 ELSE 1
FieldEvents == SelectSeq(out.st.log, LAMBDA x : x.d = CallDepth /\ x.e.ev = "field")
\* a native exception of the constructor as the caller of this call sees it
Escaped(leaf) ==
    IF call.op = "construct" THEN out.exc = leaf.exc /\ out.err = leaf
    ELSE out.exc = "ValidationError" /\ out.err = VError(call.type, <<leaf>>, <<>>)
Declared(m) == SelectSeq(m.fields, LAMBDA f : f.init)
Supplied(f, kw) == HasKey(kw, f.name) \/ (f.init_alias # "" /\ HasKey(kw, f.init_alias))
Required(f) == f.default = MISSING /\ f.default_factory = MISSING
Undeclared(m, kw) ==
    SelectSeq(kw, LAMBDA p : \A i \in 1..Len(Declared(m)) : Declared(m)[i].name # p.key)
HasAlias(m) == \E i \in 1..Len(Declared(m)) : Declared(m)[i].init_alias # ""
ForbidFails(m, kw) == m.extra = "forbid" /\ Len(Undeclared(m, kw)) > 0
MissingRequired(fs, kw) == {i \in 1..Len(fs) : Required(fs[i]) /\ ~Supplied(fs[i], kw)}
MissingLeaf(name) == LeafName("TypeError", "__init__() missing required argument", name)
\* positional-or-keyword parameters first, keyword-only parameters after
SignatureOrder(m) ==
    SelectSeq(Declared(m), LAMBDA f : ~f.kw_only) \o SelectSeq(Declared(m), LAMBDA f : f.kw_only)
FieldAccepts(f, arg) == ~FieldValidated(CallClass, f) \/ Accepts(arg, f.type)
\* equal, up to the identity of a newly built object
SameValue(a, b) ==
    IF a.k = "inst" /\ b.k = "inst" THEN [a EXCEPT !.id = 0] = [b EXCEPT !.id = 0] ELSE a = b
AttrOf(f, arg) == IF FieldValidated(CallClass, f) THEN ResultOf(arg, f.type) ELSE arg

AttrKeys(inst) == {inst.attrs[i].key : i \in 1..Len(inst.attrs)}
KeysOf(kw) == {kw[i].key : i \in 1..Len(kw)}
\* the input with its undeclared keys taken out, init_alias keys kept
WithoutUndeclared(m, kw) ==
    SelectSeq(kw, LAMBDA p : \E i \in 1..Len(Declared(m)) :
                                 p.key \in {Declared(m)[i].name, Declared(m)[i].init_alias})
Built(m, kw) == Construct(m, kw, Start(1))
\* a value without the identity of a newly built object
NoId(a) == IF a.k = "inst" THEN [a EXCEPT !.id = 0] ELSE a
Outcome(r) ==
    IF r.exc = "none"
    THEN [exc |-> "none",
          attrs |-> [i \in 1..Len(r.val.attrs) |->
                         KV(r.val.attrs[i].key, NoId(r.val.attrs[i].val))],
          fields_set |-> r.val.fields_set]
    ELSE [exc |-> r.exc, err |-> r.err]

PostInitFailed ==
    /\ ModelCall
    /\ \E k \in 1..Len(out.st.log) :
           /\ out.st.log[k].d = CallDepth
           /\ out.st.log[k].e.ev = "post_init"
    /\ out.exc # "none"
PostInitPath == <<PHook(call.type.name, "__post_init__")>>

\* C10 as stated: whatever __post_init__ raises, construction raises a
\* ValidationError with path ['<Class>.__post_init__'].  (Refuted: a
\* TypeError or RuntimeError of the hook leaves the constructor as raised.)
C10_AnyPostInitFailureWrapped ==
    (PostInitFailed /\ call.op = "construct") =>
        /\ out.exc = "ValidationError"
        /\ out.err.tp = call.type
        /\ out.err.path = PostInitPath

\* C10 amended: a ValueError raised by __post_init__ is caught by the
\* generated constructor and raised again as a ValidationError for the
\* class with path ['<Class>.__post_init__'] and the ValueError as its
\* cause; an exception of any other type leaves the constructor as raised.
C10_PostInitValueErrorWrapped ==
    PostInitFailed =>
        IF CallClass.post_init = "ValueError"
        THEN /\ out.exc = "ValidationError"
             /\ out.err = VError(call.type, <<Leaf("ValueError", "rejected by __post_init__")>>,
                                 PostInitPath)
        ELSE Escaped(Leaf(CallClass.post_init, "rejected by __post_init__"))

\* C10 witness: MPT(x=0), whose __post_init__ raises TypeError, fails with
\* that TypeError
C10_Witness ==
    /\ PostInitFailed
    /\ call.op = "construct"
    /\ call.type = Model("MPT")
    /\ out.exc = "TypeError"
    /\ out.err = Leaf("TypeError", "rejected by __post_init__")

BoolCall == IsValidate /\ call.type = TBool
TrueTokens == {"true", "True", "TRUE", "1", "y", "Y", "t", "T", "yes", "Yes", "YES"}
FalseTokens == {"false", "False", "FALSE", "0", "n", "N", "f", "F", "no", "No", "NO"}
IsTrueInput(v) ==
    \/ v = BoolV(TRUE)
    \/ v = IntV(1)
    \/ v.k = "str" /\ v.s \in TrueTokens
IsFalseInput(v) ==
    \/ v = BoolV(FALSE)
    \/ v = IntV(0)
    \/ v.k = "str" /\ v.s \in FalseTokens

\* C11: validate_value(v, bool) is total with this table: True for True,
\* the integer 1 and the strings true, 1, y, t, yes in any case; False for
\* False, the integer 0 and the strings false, 0, n, f, no in any case;
\* every other input (2, -1, -2, 'ok', 'fail') raises ValidationError with
\* the leaf 'could not convert value to bool'.
C11_BoolTable ==
    BoolCall =>
        IF IsTrueInput(call.value) THEN out.exc = "none" /\ out.val = BoolV(TRUE)
        ELSE IF IsFalseInput(call.value) THEN out.exc = "none" /\ out.val = BoolV(FALSE)
        ELSE /\ out.exc = "ValidationError"
             /\ out.err = VError(TBool,
                                 <<Leaf("ValueError", "could not convert value to bool")>>, <<>>)

\* C11 witness: the integer 2 is rejected, not taken as true
C11_Witness ==
    /\ BoolCall
    /\ call.value = IntV(2)
    /\ out.exc = "ValidationError"
    /\ out.err.errors[1].msg = "could not convert value to bool"

StrCall == IsValidate /\ call.type = TStr

TupleCall ==
    /\ IsValidate
    /\ call.type.tag = "tuple"
    /\ call.value.k \in {"list", "tuple", "set"}

AcceptedCall ==
    /\ IsValidate
    /\ out.exc = "none"
    /\ \/ call.type \in PrimTypes \cup ContainerTypes
       \/ call.type.tag = "model"

\* C14: for a primitive, container or model descriptor T and an input v that
\* T accepts, validating the returned value against T again succeeds and
\* returns that same value.
C14_Idempotent ==
    AcceptedCall =>
        /\ Accepts(out.val, call.type)
        /\ validate_value(out.val, call.type, Start(next_id)).val = out.val

\* C14 witness: a set a first call built from a list with a repeated and a
\* converted element has been validated against set[int] again
C14_Witness ==
    /\ AcceptedCall
    /\ call.type = SetOf(TInt)
    /\ call.value = SetV(<<IntV(0), IntV(1)>>)
    /\ out.val = call.value

\* validate_value(asdict(m), type(m)) has returned or raised
RoundTrip == IsValidate /\ "source" \in DOMAIN call

AllValidated(m) == \A i \in 1..Len(m.fields) : FieldValidated(m, m.fields[i])

\* a type whose validator returns a value of the type unchanged: a primitive,
\* a container of such types, or a model of such fields that are all
\* validated parameters of __init__
RECURSIVE Projecting(_)
Projecting(T) ==
    CASE T.tag \in Prims -> TRUE
      [] T.tag \in {"list", "set", "tuple_var"} -> Projecting(T.elem)
      [] T.tag = "tuple" -> \A i \in 1..Len(T.elems) : Projecting(T.elems[i])
      [] T.tag = "model" ->
            /\ AllValidated(ClassOf(T.name))
            /\ \A i \in 1..Len(ClassOf(T.name).fields) :
                   /\ ClassOf(T.name).fields[i].init
                   /\ Projecting(ClassOf(T.name).fields[i].type)
      [] OTHER -> FALSE

C16_GenericMemoized ==
    \A p, q \in generic.returned :
        (p.origin = q.origin /\ p.arg = q.arg) <=> p.id = q.id

\* C16 witness: after G[int] and a later subscription created their classes,
\* G[int] is evaluated again and returns the older class
C16_Witness ==
    /\ call.op = "class_getitem"
    /\ call.origin = "G"
    /\ call.arg = TInt
    /\ out.exc = "none"
    /\ out.val.id < Len(generic.objs)
    /\ generic.objs[out.val.id].instantiated

\* what validate_args makes of the arguments of the call
ConvertedArgs == validate_args(call.fn, call.args, call.kwds, Start(next_id))

\* C17: a function wrapped with validate_call is invoked with the converted
\* values that validate_args produces (foo called with i='1' receives the
\* int 1), and a call with an argument that cannot be converted raises
\* TypeError without invoking the function.
C17_CallReceivesConverted ==
    call.op = "validate_call" =>
        IF ConvertedArgs.exc = "none"
        THEN /\ out.exc = "none"
             /\ out.val.args = ConvertedArgs.val.args
             /\ out.val.kwds = ConvertedArgs.val.kwds
        ELSE out.exc = "TypeError"

\* a view has been declared and built
ViewDeclared == call.op = "view" /\ out.exc = "none"

\* the names kept by an include and an exclude parameter
Kept(names, include, exclude) ==
    {n \in names : (include.given => n \in include.names) /\ n \notin exclude.names}

\* each field of the view is the view body's when the body annotates the
\* name, and the parent's otherwise
FieldsOverlaid ==
    \A i \in 1..Len(out.val.fields) :
        out.val.fields[i] =
            IF out.val.fields[i].name \in FieldNames(call.body)
            THEN FieldNamed(call.body, out.val.fields[i].name)
            ELSE FieldNamed(call.parent.fields, out.val.fields[i].name)

\* C18 as stated: the field set of a view is the fields of the class it is
\* declared on overlaid with the view body's, filtered by include and exclude
\* when the view is given them, and the base model's fields stay as they
\* were.  Refuted by a view declared on a view that was given include: the
\* child, given no include of its own, loses the field its body annotates.
C18_ViewGivenFilters ==
    ViewDeclared =>
        /\ FieldNames(out.val.fields) =
               Kept(FieldNames(call.parent.fields) \cup FieldNames(call.body),
                    call.include, call.exclude)
        /\ out.val.view_base = M

\* C18: the field set of a view equals the fields of the class it is declared
\* on (the model, or the parent view) overlaid with the fields annotated in
\* the view body, keeping only the names listed in include and dropping those
\* listed in exclude, where a parameter the view does not give is the parent
\* view's; the base model's own fields are the same after the declaration.
C18_ViewFieldSet ==
    ViewDeclared =>
        /\ FieldNames(out.val.fields) =
               Kept(FieldNames(call.parent.fields) \cup FieldNames(call.body),
                    out.val.view_params.include, out.val.view_params.exclude)
        /\ out.val.view_params = ViewParams(call.parent, call.include, call.exclude)
        /\ FieldsOverlaid
        /\ out.val.view_base = M

\* C18 witness: a view of M whose body adds k and which includes i and k
C18_Witness ==
    /\ ViewDeclared
    /\ call.parent = M
    /\ call.include = Names({"i", "k"})
    /\ call.exclude = Unset
    /\ FieldNames(call.body) = {"k"}
    /\ FieldNames(out.val.fields) = {"i", "k"}

\* C19: creating a Field with both a default and a default_factory raises
\* ValueError, and no Field object carries both a default and a
\* default_factory.
C19_DefaultXorFactory ==
    call.op = "Field" =>
        /\ (call.default # MISSING /\ call.default_factory # MISSING) => out.exc = "ValueError"
        /\ out.exc = "none" =>
               out.val.default = MISSING \/ out.val.default_factory = MISSING

\* C20: for SecretStr and SecretUrl the outputs of str(), format, repr() and
\* of asdict and JSON dumping without show_secrets do not depend on the
\* secret: two values that differ only in the secret (for SecretUrl, in user
\* name and password) render identically, for every URL form.
C20_RenderingHidesSecret ==
    call.op = "render" => out.val.a = out.val.b

----------------------------------------------------------------------------
(* C29: what a successful construction stores *)

\* the value a field starts from: the argument under its name, the one under
\* its init_alias, the declared default, what default_factory returns
SourceOf(f, kw) ==
    IF HasKey(kw, f.name) THEN Get(kw, f.name)
    ELSE IF f.init_alias # "" /\ HasKey(kw, f.init_alias) THEN Get(kw, f.init_alias)
    ELSE IF f.default # MISSING THEN f.default
    ELSE IF f.default_factory # MISSING THEN f.default_factory.returns
    ELSE MISSING
\* validation is on for the field: by its own setting, else by the class's
ValidationOn(m, f) == f.validate = "True" \/ (f.validate = UNSET /\ m.validate)
\* the fields whose starting value their validator rejects
Rejected(m, fs, kw) ==
    {k \in 1..Len(fs) : /\ SourceOf(fs[k], kw) # MISSING
                        /\ ValidationOn(m, fs[k])
                        /\ ~Accepts(SourceOf(fs[k], kw), fs[k].type)}
Unfilled(fs, kw) == {k \in 1..Len(fs) : SourceOf(fs[k], kw) = MISSING}

\* C29: after a successful construction every field with validation enabled
\* holds what its validator makes of the value it started from, whether the
\* caller, the declared default or default_factory supplied it, and a field
\* with validation off (validate=False on the field, or on the class with no
\* override on the field) holds the raw value.  A starting value the
\* validator rejects, a default included, makes construction fail, with a
\* ValidationError carrying the field name as path when it is the first
\* failure of the call.
C29_StoredValidated ==
    ModelCall =>
        LET m == CallClass
            fs == SignatureOrder(CallClass)
            kw == call.value.kv
            bad == Rejected(CallClass, SignatureOrder(CallClass), call.value.kv)
        IN  /\ out.exc = "none" =>
                   /\ Len(out.val.attrs) = Len(fs)
                   /\ \A k \in 1..Len(fs) :
                          /\ out.val.attrs[k].key = fs[k].name
                          /\ IF ValidationOn(m, fs[k])
                             THEN /\ Accepts(SourceOf(fs[k], kw), fs[k].type)
                                  /\ SameValue(out.val.attrs[k].val,
                                               ResultOf(SourceOf(fs[k], kw), fs[k].type))
                             ELSE out.val.attrs[k].val = SourceOf(fs[k], kw)
            /\ bad # {} => out.exc # "none"
            /\ (bad # {} /\ ~ForbidFails(m, kw) /\ \A j \in Unfilled(fs, kw) : j > Min(bad)) =>
                   /\ out.exc = "ValidationError"
                   /\ out.err.tp = call.type
                   /\ out.err.path = <<PKey(fs[Min(bad)].name)>>

\* C29 witness: MD(e='1') succeeds with d == 1, converted from the declared
\* default '1'
C29_Witness ==
    /\ ModelCall
    /\ call.type = Model("MD")
    /\ call.value = DictV(<<KV("e", StrV("1"))>>)
    /\ out.exc = "none"
    /\ MD.fields[1].default = StrV("1")
    /\ out.val.attrs = <<KV("d", IntV(1)), KV("e", IntV(1))>>

----------------------------------------------------------------------------
(* C21: the precedence of argument, environment, default, default_factory *)

EnvCall == call.op = "construct_env"
\* the variable the claim names for a field: that of the first prefix, in
\* list order, for which PREFIX+FIELD upper-cased is in the environment
EnvVar(m, f, env) ==
    LET hits == {p \in 1..Len(m.env_prefixes) : HasKey(env, EnvKey(m.env_prefixes[p], f.name))}
    IN  IF hits = {} THEN MISSING
        ELSE StrV(Get(env, EnvKey(m.env_prefixes[Min(hits)], f.name)))
\* the value the stated precedence chooses for a field
Chosen(m, f, kw, env) ==
    IF HasKey(kw, f.name) THEN Get(kw, f.name)
    ELSE IF EnvVar(m, f, env) # MISSING THEN EnvVar(m, f, env)
    ELSE IF f.default # MISSING THEN f.default
    ELSE IF f.default_factory # MISSING THEN f.default_factory.returns
    ELSE MISSING

\* C21: with env_prefix set, each init field takes the explicitly passed
\* argument, else the environment variable of the first prefix that has one,
\* else the default, else default_factory(), else construction fails for the
\* missing argument; the chosen value is validated like a supplied one.
C21_EnvPrecedence ==
    EnvCall =>
        LET fs == SignatureOrder(call.cls)
            kw == call.kwargs
            env == call.env
            unfilled == {k \in 1..Len(fs) : Chosen(call.cls, fs[k], kw, env) = MISSING}
            bad == {k \in 1..Len(fs) : /\ Chosen(call.cls, fs[k], kw, env) # MISSING
                                       /\ ~Accepts(Chosen(call.cls, fs[k], kw, env), fs[k].type)}
        IN  /\ (unfilled = {} /\ bad = {}) =>
                   /\ out.exc = "none"
                   /\ \A k \in 1..Len(fs) :
                          out.val.attrs[k] =
                              KV(fs[k].name, ResultOf(Chosen(call.cls, fs[k], kw, env), fs[k].type))
            /\ unfilled # {} => out.exc \in {"TypeError", "ValidationError"}
            /\ (unfilled # {} /\ \A j \in bad : j > Min(unfilled)) =>
                   out.exc = "TypeError" /\ out.err = MissingLeaf(fs[Min(unfilled)].name)
            /\ bad # {} => out.exc \in {"TypeError", "ValidationError"}
            /\ (bad # {} /\ \A j \in unfilled : j > Min(bad)) =>
                   out.exc = "ValidationError" /\ out.err.path = <<PKey(fs[Min(bad)].name)>>

----------------------------------------------------------------------------
(* C30: __cwtch_fields_set__ *)

\* the names of the fields of fs, in order, that kw passes under their own name
NamesPassed(fs, kw) ==
    LET passed == SelectSeq(fs, LAMBDA f : HasKey(kw, f.name))
    IN  [k \in 1..Len(passed) |-> passed[k].name]

\* C30: after a successful construction of a model with at least one init
\* field, __cwtch_fields_set__ is the tuple of exactly the init fields passed
\* explicitly under their own name, positional-or-keyword fields first and
\* keyword-only fields after, in declaration order within each group; a
\* field filled from its default, default_factory, an environment variable
\* or its init_alias key is not in it.
C30_FieldsSet ==
    /\ (ModelCall /\ out.exc = "none" /\ Len(Declared(CallClass)) > 0) =>
           out.val.fields_set = NamesPassed(SignatureOrder(CallClass), call.value.kv)
    /\ (EnvCall /\ out.exc = "none") =>
           out.val.fields_set = NamesPassed(SignatureOrder(call.cls), call.kwargs)

\* C30 witness: MK(a='1', b='1') lists b before the keyword-only a and leaves
\* out c, which default_factory filled
C30_Witness ==
    /\ ModelCall
    /\ call.type = Model("MK")
    /\ call.value = DictV(<<KV("a", StrV("1")), KV("b", StrV("1"))>>)
    /\ out.exc = "none"
    /\ Len(out.val.attrs) = 3
    /\ out.val.fields_set = <<"b", "a">>

----------------------------------------------------------------------------
(* C22: the schemes of the URL aliases *)

\* the schemes the claim gives each alias
AllowedSchemes(name) ==
    CASE name \in {"HttpUrl", "SecretHttpUrl"} -> {"http", "https"}
      [] name = "WebsocketpUrl" -> {"ws", "wss"}
      [] name = "FileUrl" -> {"file"}
      [] name = "FtpUrl" -> {"ftp"}

\* C22: validate_value(u, HttpUrl) raises ValidationError when the scheme of
\* u is not http or https, and SecretHttpUrl, WebsocketpUrl (ws, wss),
\* FileUrl (file) and FtpUrl (ftp) likewise reject a URL whose scheme is
\* outside their list.
C22_SchemeRestricted ==
    (call.op = "validate_url" /\ call.url.scheme \notin AllowedSchemes(call.alias)) =>
        out.exc = "ValidationError"

----------------------------------------------------------------------------
(* C23, C28: the context cache during from_attributes *)

Frames == {ctx.stack[n] : n \in 1..Len(ctx.stack)}

\* C23: a construction started with cache key k has the instance stored under
\* k while its fields are validated and k removed once the body of __init__
\* is left, by return or by exception: the keys in the cache are exactly
\* those of the constructions that are inside the body (fields being set, or
\* the body ending), and after a from_attributes call has returned or raised
\* the cache has no entry for its key.
C23_CacheScoped ==
    /\ ctx.cache.keys = {Key(frame) : frame \in {g \in Frames : g.pc \in {"fields", "finally"}}}
    /\ ctx.last # NoResult => <<ctx.last.cls, ctx.last.obj>> \notin ctx.cache.keys
    /\ ctx.stack = <<>> => ctx.cache.keys = {}

\* C23 witness: a from_attributes call made inside a construction has raised
\* out of its field validation; its key is gone and the key of the
\* construction that made the call is still stored
C23_Witness ==
    /\ ctx.last # NoResult
    /\ ctx.last.exc = "ValidationError"
    /\ ctx.last.depth = 2
    /\ Len(ctx.stack) = 1
    /\ Top(ctx).cls = "Outer"
    /\ Top(ctx).pc = "finally"
    /\ ctx.cache.keys = {Key(Top(ctx))}

\* C28: the slot reset_circular_refs is absent once every from_attributes
\* call has ended, the running call finds its own reset_circular_refs value
\* in the slot also after a call made inside it has ended, and no call ends
\* with the KeyError of its own cleanup.
C28_Reentrant ==
    /\ ctx.stack = <<>> => ctx.cache.slot = "absent"
    /\ ctx.stack # <<>> => ctx.cache.slot = Top(ctx).reset
    /\ ctx.last # NoResult => ctx.last.exc # "KeyError"

----------------------------------------------------------------------------
(* C24: generic models subscribed from several threads *)

\* C24: whatever the interleaving of the threads, all evaluations of one
\* M[X], the first ones made at the same time and the later ones, returned
\* the same class object.
C24_OneClassPerAlias ==
    \A p \in generic.returned : \A q \in generic.returned :
        (p.origin = q.origin /\ p.arg = q.arg) => p.id = q.id

----------------------------------------------------------------------------
(* C25, C26, C27: what declaring, instantiating and constructing change *)

\* the classes that exist before the step keep what can be seen of them
ClassesKept ==
    \A cid \in 1..Len(registry.classes) : ClassView(registry', cid) = ClassView(registry, cid)

NewClassId == Len(registry.classes)
TypeOfField(cid, name) ==
    registry.fieldobjs[Get(registry.dicts[registry.classes[cid].dict], name)].type

C27_SubclassLeavesBase ==
    [][DeclareSubclass => ClassesKept]_vars

\* C25: constructing an instance leaves every class as it was: class
\* attributes, __dataclass_fields__ and Field objects.
C25_ConstructionReadsOnly ==
    [][ConstructInstance => ClassesKept]_vars

====
